---- MODULE Spec2Model ----
(***************************************************************************)
(* ont_demult: cut-site catalog, nearest-site locator and read classifier. *)
(*                                                                         *)
(* Conventions                                                             *)
(*   Option<T>     [kind |-> "None"] or [kind |-> "Some", val |-> v]       *)
(*   panic         [kind |-> "Panic"]                                      *)
(*   &Site         [contig |-> c, ix |-> i]: the i-th (0-based, as in the  *)
(*                 source) entry of chash[c].cut_sites                     *)
(*   An operator whose Rust counterpart leaves a choice open (an unstable  *)
(*   sort of equal keys, a binary search among equal keys) returns the set *)
(*   of its possible results.                                              *)
(***************************************************************************)
EXTENDS Integers, Sequences, FiniteSets, TLC

VARIABLES
    cut_file,         \* rows of the cut file named on the command line
    param,            \* Param (params.rs): the run configuration
    overflow_checks,  \* build profile: TRUE = overflow panics, FALSE = wraps
    query,            \* arguments of the last CutSites::find_site call
    found,            \* its result
    paf_file,         \* PafFile (paf.rs): the reader of the alignment input
    paf,              \* the alignment groups next_read has still to return
    groups,           \* the alignment groups next_read has returned so far
    read,             \* the PafRead handed to the classifier
    lookup,           \* the last run of PafRead::find_site (None: not called)
    map_result,       \* MapResult of the last processed read
    output,           \* rows written to the report (read name, tag)
    read_hash,        \* Option<HashMap>: the classification stored per read name
    fq_file,          \* FastqFile (fastq.rs): the reader of the FASTQ input
    ofiles,           \* OutputFiles (output.rs): the demultiplexed streams
    pc                \* position of the program

vars == <<cut_file, param, overflow_checks, query, found, paf_file, paf, groups, read, lookup,
          map_result, output, read_hash, fq_file, ofiles, pc>>

----------------------------------------------------------------------------
(* Bounds of the model                                                     *)

MaxPos == 6          \* site and query positions range over 0..MaxPos
MaxSites == 3        \* rows of a cut-site file in the locator specification
MaxDist == 2         \* max_dist ranges over 0..MaxDist

----------------------------------------------------------------------------
(* Option, panic, usize                                                    *)

None == [kind |-> "None"]
Some(v) == [kind |-> "Some", val |-> v]
Panic == [kind |-> "Panic"]

\* usize arithmetic is modulo 2^64.  TLC's integers are 32 bits wide, so the
\* modulus is represented by 2^30: every position, length and distance of the
\* model is far below it, and a wrapped difference far above them, which is all
\* the comparisons of the source depend on.
UsizeModulus == 2^30

\* a - b on usize in a build without overflow checks
wrapping_sub(a, b) == (a - b) % UsizeModulus

----------------------------------------------------------------------------
(* Cut-site catalog (cut_site.rs)                                          *)

ContigNames == {"chrA", "chrB"}

Site(name, pos, barcode) == [name |-> name, pos |-> pos, barcode |-> barcode]

\* The circular flag literal of column 5, lower-cased by the source
to_lowercase(s) ==
    CASE s = "TRUE" -> "true"
      [] s = "True" -> "true"
      [] s = "FALSE" -> "false"
      [] s = "YES" -> "yes"
      [] s = "NO" -> "no"
      [] OTHER -> s

parse_flag(s) ==
    LET t == to_lowercase(s) IN
    CASE t \in {"true", "yes", "1"} -> Some(TRUE)
      [] t \in {"false", "no", "0"} -> Some(FALSE)
      [] OTHER -> Panic

\* Mutant of read_cut_row: the flag of a later row replaces the recorded one
read_cut_row_last_flag_wins(chash, r) ==
    IF ~(r.nf > 4) THEN Some(chash)
    ELSE
      LET ctg == IF r.contig \in DOMAIN chash THEN chash[r.contig]
                 ELSE [name |-> r.contig, cut_sites |-> <<>>, circular |-> None]
          fg == parse_flag(r.flag)
      IN  IF fg = Panic THEN Panic
          ELSE
            LET ctg1 == [ctg EXCEPT !.circular = fg,
                                    !.cut_sites = Append(@, Site(r.name, r.pos, r.barcode))]
            IN  Some([c \in (DOMAIN chash) \cup {r.contig} |->
                        IF c = r.contig THEN ctg1 ELSE chash[c]])

\* One row of the loop of read_cut_file applied to the map built so far.
\* A row is [nf, contig, pos, name, barcode, flag]: nf is the number of
\* tab-separated fields, flag is column 5 (read only when nf > 4).
read_cut_row(chash, r) ==
    IF ~(r.nf > 4) THEN Some(chash)
    ELSE
      LET ctg == IF r.contig \in DOMAIN chash THEN chash[r.contig]
                 ELSE [name |-> r.contig, cut_sites |-> <<>>, circular |-> None]
          fg == parse_flag(r.flag)
      IN  IF fg = Panic THEN Panic
          ELSE IF ctg.circular # None /\ ctg.circular # fg THEN Panic
          ELSE
            LET ctg1 == [ctg EXCEPT !.circular = fg,
                                    !.cut_sites = Append(@, Site(r.name, r.pos, r.barcode))]
            IN  Some([c \in (DOMAIN chash) \cup {r.contig} |->
                        IF c = r.contig THEN ctg1 ELSE chash[c]])

RECURSIVE read_cut_rows(_, _)
read_cut_rows(chash, rows) ==
    IF rows = <<>> THEN Some(chash)
    ELSE LET nxt == read_cut_row(chash, Head(rows)) IN
         IF nxt = Panic THEN Panic ELSE read_cut_rows(nxt.val, Tail(rows))

is_sorted_by_pos(s) == \A i \in 1..(Len(s) - 1) : s[i].pos <= s[i + 1].pos

\* Mutant of sort_unstable_by_pos: the sites stay in file order
sort_unstable_by_pos_skipped(s) == {s}

\* sort_unstable_by_key(|s| s.pos): every ordering of the sites that is
\* ascending by position
sort_unstable_by_pos(s) ==
    IF Len(s) = 0 THEN {<<>>}
    ELSE { t \in { [i \in 1..Len(s) |-> s[p[i]]] : p \in Permutations(1..Len(s)) } :
             is_sorted_by_pos(t) }

\* read_cut_file: the set of its possible results, Panic or Some(CutSites)
read_cut_file(rows) ==
    LET built == read_cut_rows(<<>>, rows) IN
    IF built = Panic THEN {Panic}
    ELSE LET chash == built.val
             names == DOMAIN chash
         IN  { Some([chash |-> [c \in names |-> [chash[c] EXCEPT !.cut_sites = f[c]]]]) :
                 f \in { g \in [names -> UNION { sort_unstable_by_pos(chash[c].cut_sites) : c \in names }] :
                           \A c \in names : g[c] \in sort_unstable_by_pos(chash[c].cut_sites) } }

----------------------------------------------------------------------------
(* Nearest-site locator: CutSites::find_site (cut_site.rs)                 *)

\* ctg.cut_sites[ix] with the 0-based index of the source
site_at(sites, ix) == sites[ix + 1]

\* binary_search_by_key(&pos, |s| s.pos): Ok(ix) for any index holding pos,
\* otherwise Err(ix) with the insertion point
binary_search_by_key(sites, pos) ==
    LET hits == { i \in 0..(Len(sites) - 1) : site_at(sites, i).pos = pos } IN
    IF hits # {} THEN { [ok |-> TRUE, ix |-> i] : i \in hits }
    ELSE { [ok |-> FALSE,
            ix |-> Cardinality({ i \in 0..(Len(sites) - 1) : site_at(sites, i).pos < pos })] }

\* Mutant of exact_match: the site before the one the search found
exact_match_off_by_one(contig, ix) == Some([contig |-> contig, ix |-> IF ix > 0 THEN ix - 1 ELSE ix + 1])

\* Ok(ix) => Some(&ctg.cut_sites[ix])
exact_match(contig, ix) == Some([contig |-> contig, ix |-> ix])

\* Mutant of between_sites: the predecessor wins a tie
between_sites_tie_to_predecessor(d1, d2) == IF d1.val.d <= d2.val.d THEN d1 ELSE d2

\* (Some((i, x)), Some((j, y))) => if x < y { d1 } else { d2 }
between_sites(d1, d2) == IF d1.val.d < d2.val.d THEN d1 ELSE d2

\* (Some((i, x)), None): pos lies after the last cut site
after_last_site(ctg, d1, pos, l, checks) ==
    IF ctg.circular = Some(TRUE) THEN
        LET x0 == site_at(ctg.cut_sites, 0).pos
            x == d1.val.d
        IN  IF pos < l /\ checks THEN Panic
            ELSE LET w == wrapping_sub(pos, l)
                     y == IF x0 >= w THEN wrapping_sub((x0 + l) % UsizeModulus, pos)
                          ELSE wrapping_sub(w, x0)
                 IN  IF x < y THEN d1 ELSE Some([i |-> 0, d |-> y])
    ELSE d1

\* (None, Some((0, y))): pos lies before the first cut site
before_first_site(ctg, d2, pos, l, checks) ==
    IF ctg.circular = Some(TRUE) THEN
        LET n == Len(ctg.cut_sites)
            xn == site_at(ctg.cut_sites, n - 1).pos
            y == d2.val.d
        IN  IF xn < l /\ checks THEN Panic
            ELSE LET w == wrapping_sub(xn, l)
                     x == IF pos >= w THEN wrapping_sub((pos + l) % UsizeModulus, xn)
                          ELSE wrapping_sub(w, pos)
                 IN  IF x < y THEN Some([i |-> n - 1, d |-> x]) ELSE d2
    ELSE d2

\* Err(ix): the closest of the flanking sites, as Some([i, d]), or Panic
closest_site(ctg, ix, pos, l, checks) ==
    LET sites == ctg.cut_sites
        d1 == IF ix > 0 /\ ix - 1 < Len(sites)
              THEN Some([i |-> ix - 1, d |-> pos - site_at(sites, ix - 1).pos])
              ELSE None
        d2 == IF ix < Len(sites)
              THEN Some([i |-> ix, d |-> site_at(sites, ix).pos - pos])
              ELSE None
    IN  CASE d1 # None /\ d2 # None -> between_sites(d1, d2)
          [] d1 # None /\ d2 = None -> after_last_site(ctg, d1, pos, l, checks)
          [] d1 = None /\ d2 # None -> before_first_site(ctg, d2, pos, l, checks)
          [] OTHER -> Panic

\* if d <= max_dist { Some(&ctg.cut_sites[i]) } else { None }
within_max_dist(contig, c, max_dist) ==
    IF c = Panic THEN Panic
    ELSE IF c.val.d <= max_dist THEN Some([contig |-> contig, ix |-> c.val.i])
    ELSE None

\* CutSites::find_site(contig, pos, max_dist, l): the set of possible results
find_site(cs, contig, pos, max_dist, l, checks) ==
    IF contig \in DOMAIN cs.chash THEN
        LET ctg == cs.chash[contig] IN
        { IF b.ok THEN exact_match(contig, b.ix)
          ELSE within_max_dist(contig, closest_site(ctg, b.ix, pos, l, checks), max_dist) :
            b \in binary_search_by_key(ctg.cut_sites, pos) }
    ELSE {None}

\* The Site a result of find_site refers to
site_of(cs, m) == site_at(cs.chash[m.val.contig].cut_sites, m.val.ix)

----------------------------------------------------------------------------
(* Directional lookup called by the classifier.  paf.rs calls              *)
(* cut_sites.find_site(contig, pos, flag, max_dist, l) with a fifth, boolean *)
(* argument; this five-argument locator and the equality of two &Site are  *)
(* not in the source under src/ (cut_site.rs there holds the four-argument *)
(* locator, and Site derives no PartialEq).  Both follow the specification: *)
(* a lookup is honored only when its flag is set, and sites are compared by *)
(* catalog identity.                                                       *)

find_site_dir(cs, contig, pos, flag, max_dist, l, checks) ==
    IF flag THEN find_site(cs, contig, pos, max_dist, l, checks) ELSE {None}

same_site(m1, m2) == m1.val.contig = m2.val.contig /\ m1.val.ix = m2.val.ix

----------------------------------------------------------------------------
(* Alignment groups and the classifier (paf.rs)                            *)

Strands == {"Plus", "Minus"}

\* self.qlen < r.target_length + 150
Slack == 150

\* Mutant of is_mapped: one mapped segment is enough
is_mapped_any(rd) == \E i \in 1..Len(rd.records) : rd.records[i].target_name # "*"

is_mapped(rd) == \A i \in 1..Len(rd.records) : rd.records[i].target_name # "*"

is_unique(rd, threshold) == \E i \in 1..Len(rd.records) : rd.records[i].mapq >= threshold

\* Mutant of anchor_filter: a query of exactly target length + 150 is kept
anchor_filter_keeps_slack(rd, r, threshold) ==
    r.mapq >= threshold /\ rd.qlen <= r.target_length + Slack

\* .filter(|r| r.mapq >= threshold && self.qlen < r.target_length + 150)
anchor_filter(rd, r, threshold) == r.mapq >= threshold /\ rd.qlen < r.target_length + Slack

\* .max_by_key(|r| r.matching_bases): the index of the anchor among the
\* filtered records (the last of several maxima), as an Option
find_anchor(rd, threshold) ==
    LET cand == { i \in 1..Len(rd.records) : anchor_filter(rd, rd.records[i], threshold) } IN
    IF cand = {} THEN None
    ELSE Some(CHOOSE i \in cand : \A j \in cand :
                \/ rd.records[j].matching_bases < rd.records[i].matching_bases
                \/ (rd.records[j].matching_bases = rd.records[i].matching_bases /\ j <= i))

\* Mutant of collect_filter: segments of mapping quality 0 are collected too
collect_filter_any_mapq(s, r) == s.target_name = r.target_name /\ s.strand = r.strand

\* .filter(|s| s.target_name == r.target_name && s.strand == r.strand && s.mapq > 0)
collect_filter(s, r) == s.target_name = r.target_name /\ s.strand = r.strand /\ s.mapq > 0

collect_recs(sq, r) == SelectSeq(sq, LAMBDA s : collect_filter(s, r))

is_sorted_by_qstart(s) == \A i \in 1..(Len(s) - 1) : s[i].qstart <= s[i + 1].qstart

\* recs.sort_unstable_by_key(|s| s.qstart): every ascending ordering
sort_unstable_by_qstart(s) ==
    IF Len(s) = 0 THEN {<<>>}
    ELSE { t \in { [i \in 1..Len(s) |-> s[p[i]]] : p \in Permutations(1..Len(s)) } :
             is_sorted_by_qstart(t) }

\* Mutant of has_overlap: segments that only touch are not an overlap
has_overlap_strict(recs) == \E i \in 1..(Len(recs) - 1) : recs[i].qend > recs[i + 1].qstart

\* for s in recs.windows(2) { if s[0].qend >= s[1].qstart { skip = true } }
has_overlap(recs) == \E i \in 1..(Len(recs) - 1) : recs[i].qend >= recs[i + 1].qstart

RECURSIVE used_bases(_)
used_bases(recs) ==
    IF recs = <<>> THEN 0
    ELSE (Head(recs).qend - Head(recs).qstart) + used_bases(Tail(recs))

\* Mutant of saturating_sub: below zero the size of the difference is kept
saturating_sub_mirrored(a, b) == IF a >= b THEN a - b ELSE b - a

saturating_sub(a, b) == IF a >= b THEN a - b ELSE 0

\* Mutant of start_position: the target coordinates of the two strands are swapped
start_position_swapped(s, margin) ==
    IF s.strand = "Minus" THEN <<s.target_start, s.target_start + margin>>
    ELSE <<s.target_end, saturating_sub(s.target_end, margin)>>

\* (start, spos) of the record that starts earliest in the read
start_position(s, margin) ==
    IF s.strand = "Plus" THEN <<s.target_start, s.target_start + margin>>
    ELSE <<s.target_end, saturating_sub(s.target_end, margin)>>

\* recs.iter().max_by_key(|s| s.qend): the last of several maxima
latest_end(recs) ==
    recs[CHOOSE i \in 1..Len(recs) : \A j \in 1..Len(recs) :
            \/ recs[j].qend < recs[i].qend
            \/ (recs[j].qend = recs[i].qend /\ j <= i)]

\* (end, send) of the record that ends latest in the read
end_position(s1, margin) ==
    IF s1.strand = "Plus" THEN <<s1.target_end, saturating_sub(s1.target_end, margin)>>
    ELSE <<s1.target_start, s1.target_start + margin>>

interior_splits(recs, strand) ==
    [i \in 1..(Len(recs) - 1) |->
        IF strand = "Plus"
        THEN [from |-> recs[i].target_end, to |-> recs[i + 1].target_start]
        ELSE [from |-> recs[i].target_start, to |-> recs[i + 1].target_end]]

\* Mutant of check_match: unused equal to the threshold is already too much
check_match_at_threshold(site, contig, cloc, max_unmatched) ==
    IF cloc.unused >= max_unmatched
    THEN [tag |-> "ExcessUnmatched", site |-> site, contig |-> contig, inner |-> cloc]
    ELSE [tag |-> "Match", site |-> site, contig |-> contig, inner |-> cloc]

\* let check_match = |m| ...
check_match(site, contig, cloc, max_unmatched) ==
    IF cloc.unused > max_unmatched
    THEN [tag |-> "ExcessUnmatched", site |-> site, contig |-> contig, inner |-> cloc]
    ELSE [tag |-> "Match", site |-> site, contig |-> contig, inner |-> cloc]

\* A FindMatch variant that carries a Location
location(tag, contig, cloc) == [tag |-> tag, site |-> None, contig |-> contig, inner |-> cloc]

\* Mutant of both_matched: Xor is treated like the other strategies
both_matched_ignoring_xor(m1, m2, sel, contig, cloc, max_unmatched) ==
    IF same_site(m1, m2) THEN check_match(m1, contig, cloc, max_unmatched)
    ELSE location("MisMatch", contig, cloc)

\* (Some(m1), Some(m2), sel) => ...
both_matched(m1, m2, sel, contig, cloc, max_unmatched) ==
    IF same_site(m1, m2)
    THEN IF sel = "Xor" THEN location("MatchBoth", contig, cloc)
         ELSE check_match(m1, contig, cloc, max_unmatched)
    ELSE location("MisMatch", contig, cloc)

\* Mutant of start_only: the MatchStart arm is missing
start_only_always_match(m, sel, contig, cloc, max_unmatched) ==
    check_match(m, contig, cloc, max_unmatched)

\* (Some(_), None, Strategy::Both) => MatchStart, (Some(m), None, _) => check_match
start_only(m, sel, contig, cloc, max_unmatched) ==
    IF sel = "Both" THEN location("MatchStart", contig, cloc)
    ELSE check_match(m, contig, cloc, max_unmatched)

\* Mutant of end_only: the Xor alternative of the pattern is missing
end_only_without_xor(m, sel, contig, cloc, max_unmatched) ==
    IF sel = "Either" THEN check_match(m, contig, cloc, max_unmatched)
    ELSE location("MatchEnd", contig, cloc)

\* (None, Some(m), Either) | (None, Some(m), Xor) => check_match,
\* (None, Some(_), _) => MatchEnd
end_only(m, sel, contig, cloc, max_unmatched) ==
    IF sel \in {"Either", "Xor"} THEN check_match(m, contig, cloc, max_unmatched)
    ELSE location("MatchEnd", contig, cloc)

\* match (start_site, end_site, select) { ... }
resolve_match(start_site, end_site, sel, contig, cloc, max_unmatched) ==
    CASE start_site # None /\ end_site # None ->
            both_matched(start_site, end_site, sel, contig, cloc, max_unmatched)
      [] start_site # None /\ end_site = None ->
            start_only(start_site, sel, contig, cloc, max_unmatched)
      [] start_site = None /\ end_site # None ->
            end_only(end_site, sel, contig, cloc, max_unmatched)
      [] OTHER -> location("Location", contig, cloc)

\* Mutant of end_flag: the end lookup is gated like the start lookup
end_flag_as_start(strand) == strand = "Plus"

\* The third argument of the two lookups: strand == Strand::Plus for the start
\* position, strand == Strand::Minus for the end position
start_flag(strand) == strand = "Plus"
end_flag(strand) == strand = "Minus"

\* impl fmt::Display for CommonLoc: the columns strand, start, end, length,
\* unused of a report row (the proportion and the splits follow)
fmt_common_loc(cloc) == <<cloc.strand, cloc.start[1], cloc.end[1], cloc.length, cloc.unused>>

\* What one run of PafRead::find_site leaves: its result fm (Panic, None or
\* Some(FindMatch)) and the values of its locals the properties speak about
Found(fm, recs, ss, es, unused) ==
    [fm |-> fm, recs |-> recs, start_site |-> ss, end_site |-> es, unused |-> unused]

\* The body of the and_then closure for the anchor r and one ordering of recs
classify_recs(rd, r, recs, cs, prm, checks) ==
    IF Len(recs) = 0 THEN { Found(Panic, recs, None, None, 0) }
    ELSE IF has_overlap(recs) THEN { Found(None, recs, None, None, 0) }
    ELSE IF ~(used_bases(recs) <= rd.qlen) THEN { Found(Panic, recs, None, None, 0) }
    ELSE
      LET s == recs[1]
          unused == rd.qlen - used_bases(recs)
          sp == start_position(s, prm.margin)
          ep == end_position(latest_end(recs), prm.margin)
          cloc == [strand |-> s.strand, start |-> sp, end |-> ep, length |-> rd.qlen,
                   unused |-> unused, splits |-> interior_splits(recs, r.strand)]
          starts == find_site_dir(cs, s.target_name, sp[2], start_flag(r.strand),
                                  prm.max_distance, s.target_length, checks)
          ends == find_site_dir(cs, s.target_name, ep[2], end_flag(r.strand),
                                prm.max_distance, s.target_length, checks)
      IN  UNION { IF ss = Panic THEN { Found(Panic, recs, None, None, unused) }
                  ELSE { IF es = Panic THEN Found(Panic, recs, ss, None, unused)
                         ELSE Found(Some(resolve_match(ss, es, prm.select, s.target_name,
                                                       cloc, prm.max_unmatched)),
                                    recs, ss, es, unused) : es \in ends } :
                    ss \in starts }

\* PafRead::find_site(cut_sites, param): the set of its possible runs
read_find_site(rd, cs, prm, checks) ==
    LET a == find_anchor(rd, prm.mapq_thresh) IN
    IF a = None THEN { Found(None, <<>>, None, None, 0) }
    ELSE LET r == rd.records[a.val] IN
         UNION { classify_recs(rd, r, recs, cs, prm, checks) :
                   recs \in sort_unstable_by_qstart(collect_recs(rd.records, r)) }

----------------------------------------------------------------------------
(* Reader of the alignment input: PafFile (paf.rs)                         *)
(*   io::Result<T>   [kind |-> "Ok", val |-> v] or [kind |-> "Err", msg |-> m] *)
(*   a line          the record of its tab-separated fields; nf is their   *)
(*                   number                                                *)
(*   PafFile         lines and next stand for rdr: the lines of the input  *)
(*                   and the index of the next one to read; buf is None    *)
(*                   when the line buffer is empty                         *)

Ok(v) == [kind |-> "Ok", val |-> v]
Err(m) == [kind |-> "Err", msg |-> m]

\* fn split: a line of fewer than 12 fields is an error
split(buf, line) == IF buf.nf < 12 THEN Err("Short line") ELSE Ok(buf)

\* PafRecord::from_str_slice: the record and the contig names seen so far
record_from_str_slice(v, ctgs) ==
    IF v.strand \notin {"+", "-"} THEN [ctgs |-> ctgs, result |-> Err("strand")]
    ELSE IF v.qend <= v.qstart
    THEN [ctgs |-> ctgs \cup {v.target_name}, result |-> Err("query start >= query end")]
    ELSE [ctgs |-> ctgs \cup {v.target_name},
          result |-> Ok([qstart |-> v.qstart, qend |-> v.qend,
                         strand |-> IF v.strand = "+" THEN "Plus" ELSE "Minus",
                         target_name |-> v.target_name, target_length |-> v.target_length,
                         target_start |-> v.target_start, target_end |-> v.target_end,
                         matching_bases |-> v.matching_bases, mapq |-> v.mapq])]

\* PafRead::from_str_slice: a read from its first mapping record
read_from_str_slice(v, ctgs) ==
    LET rec == record_from_str_slice(v, ctgs) IN
    IF rec.result.kind = "Err" THEN rec
    ELSE IF rec.result.val.qend > v.qlen
    THEN [ctgs |-> rec.ctgs, result |-> Err("query start > query len")]
    ELSE [ctgs |-> rec.ctgs,
          result |-> Ok([qname |-> v.qname, qlen |-> v.qlen, records |-> <<rec.result.val>>])]

\* Mutant of add_record: the end of a later record is not compared with qlen
add_record_unchecked(rd, v, ctgs) ==
    LET rec == record_from_str_slice(v, ctgs) IN
    IF rec.result.kind = "Err" THEN rec
    ELSE [ctgs |-> rec.ctgs,
          result |-> Ok([rd EXCEPT !.records = Append(@, rec.result.val)])]

\* PafRead::add_record: the read with one more record
add_record(rd, v, ctgs) ==
    LET rec == record_from_str_slice(v, ctgs) IN
    IF rec.result.kind = "Err" THEN rec
    ELSE IF rec.result.val.qend > rd.qlen
    THEN [ctgs |-> rec.ctgs, result |-> Err("query start > query len")]
    ELSE [ctgs |-> rec.ctgs,
          result |-> Ok([rd EXCEPT !.records = Append(@, rec.result.val)])]

\* PafFile::next_line: buf is cleared and filled with the next line, if any
next_line(f) ==
    IF f.next <= Len(f.lines)
    THEN [f EXCEPT !.buf = Some(f.lines[f.next]), !.next = f.next + 1, !.line = f.line + 1]
    ELSE [f EXCEPT !.buf = None, !.line = f.line + 1]

\* Mutant of buf_is_empty: a line left in the buffer is not seen
buf_is_empty_always(f) == TRUE

\* self.buf.is_empty()
buf_is_empty(f) == f.buf = None

\* The loop of next_read that adds the following lines of the same read
RECURSIVE add_records(_, _)
add_records(f, rd) ==
    LET f1 == next_line(f) IN
    IF f1.buf = None THEN [file |-> [f1 EXCEPT !.eof = TRUE], result |-> Ok(Some(rd))]
    ELSE LET fd == split(f1.buf.val, f1.line) IN
         IF fd.kind = "Err" THEN [file |-> f1, result |-> fd]
         ELSE IF fd.val.qname = rd.qname
         THEN LET a == add_record(rd, fd.val, f1.ctgs)
                  f2 == [f1 EXCEPT !.ctgs = a.ctgs]
              IN  IF a.result.kind = "Err" THEN [file |-> f2, result |-> a.result]
                  ELSE add_records(f2, a.result.val)
         ELSE [file |-> f1, result |-> Ok(Some(rd))]

\* PafFile::next_read: the file after the call and the result of the call
next_read(f) ==
    IF f.eof THEN [file |-> f, result |-> Ok(None)]
    ELSE LET f1 == IF buf_is_empty(f) THEN next_line(f) ELSE f IN
         IF f1.buf = None THEN [file |-> f1, result |-> Ok(None)]
         ELSE LET fd == split(f1.buf.val, f1.line) IN
              IF fd.kind = "Err" THEN [file |-> f1, result |-> fd]
              ELSE LET r == read_from_str_slice(fd.val, f1.ctgs)
                       f2 == [f1 EXCEPT !.ctgs = r.ctgs]
                   IN  IF r.result.kind = "Err" THEN [file |-> f2, result |-> r.result]
                       ELSE add_records(f2, r.result.val)

----------------------------------------------------------------------------
(* Main loop (main.rs)                                                     *)

MapQlen(tag, qlen) == [tag |-> tag, qlen |-> qlen]

\* Mutant of map_find_match: a plain Location is reported as a mismatch
map_find_match_location_as_mismatch(fm) ==
    [fm EXCEPT !.tag = CASE fm.tag = "Match" -> "Matched"
                         [] fm.tag = "Location" -> "MisMatch"
                         [] OTHER -> fm.tag]

\* match fm { FindMatch::Match(m) => MapResult::Matched(m), ... }
map_find_match(fm) ==
    [fm EXCEPT !.tag = CASE fm.tag = "Match" -> "Matched"
                         [] fm.tag = "Location" -> "Unmatched"
                         [] OTHER -> fm.tag]

\* Mutant of has_cut_sites: an empty catalog counts as no catalog
has_cut_sites_nonempty(prm) == prm.cut_sites # None /\ DOMAIN prm.cut_sites.val.chash # {}

\* if let Some(cut_sites) = param.cut_sites()
has_cut_sites(prm) == prm.cut_sites # None

\* let map_result = if read.is_mapped() { ... }: the possible outcomes, each
\* with the run of PafRead::find_site behind it (None when it was not called)
classify(rd, prm, checks) ==
    IF is_mapped(rd) THEN
        IF is_unique(rd, prm.mapq_thresh) THEN
            IF has_cut_sites(prm) THEN
                { [run |-> Some(f),
                   result |-> CASE f.fm = Panic -> Panic
                                [] f.fm = None -> MapQlen("LowMapQ", rd.qlen)
                                [] OTHER -> map_find_match(f.fm.val)] :
                    f \in read_find_site(rd, prm.cut_sites.val, prm, checks) }
            ELSE { [run |-> None, result |-> MapQlen("NoCutSites", rd.qlen)] }
        ELSE { [run |-> None, result |-> MapQlen("LowMapQ", rd.qlen)] }
    ELSE { [run |-> None, result |-> MapQlen("Unmapped", rd.qlen)] }

----------------------------------------------------------------------------
(* Run configuration (params.rs, cli.rs)                                   *)

Strategies == {"Start", "Both", "Either", "Xor"}

\* The values command_line() gives when no option is set; no cut file
----------------------------------------------------------------------------
(* FASTQ stage: FastqFile (fastq.rs), OutputFiles (output.rs) and the      *)
(* dispatch of main.rs                                                     *)
(*   a FASTQ record   [at, name, end_tag, comment, nlines, seq, plus, qual]: *)
(*                    the id line is '@' (when at), name, '/' end_tag      *)
(*                    (unless end_tag is ""), a blank and a comment (when  *)
(*                    comment); nlines of its four lines are in the input; *)
(*                    seq and qual are the lengths of the sequence and     *)
(*                    quality lines, plus tells that line 3 starts with '+' *)
(*   FastqFile        recs and next stand for rdr, buf is the record whose *)
(*                    lines are in the three buffers                        *)
(*   a stream         the sequence of the records written to it             *)

\* FastqFile::open
fastq_open(recs) == [recs |-> recs, next |-> 1, buf |-> None, line |-> 0]

\* FastqFile::next_read: Ok(FALSE) at the end of the input, Ok(TRUE) with the
\* record in the buffers, or the error of a malformed record
fastq_next_read(f) ==
    IF f.next > Len(f.recs)
    THEN [file |-> [f EXCEPT !.line = @ + 1], result |-> Ok(FALSE)]
    ELSE LET rec == f.recs[f.next]
             at(n) == [f EXCEPT !.next = @ + 1, !.buf = Some(rec), !.line = @ + n]
         IN  IF ~rec.at THEN [file |-> at(1), result |-> Err("Unexpected character")]
             ELSE IF rec.nlines < 2 THEN [file |-> at(2), result |-> Err("Incomplete record")]
             ELSE IF rec.nlines < 3 THEN [file |-> at(3), result |-> Err("Incomplete record")]
             ELSE IF ~rec.plus THEN [file |-> at(3), result |-> Err("Unexpected character")]
             ELSE IF rec.nlines < 4 THEN [file |-> at(4), result |-> Err("Incomplete record")]
             ELSE IF rec.seq # rec.qual
                  THEN [file |-> at(4), result |-> Err("Different lengths")]
             ELSE [file |-> at(4), result |-> Ok(TRUE)]

\* FastqFile::read_id: the id line without '@', up to the first white space,
\* without a trailing /1 or /2
read_id(rec) ==
    LET tag == IF rec.end_tag = "" THEN rec.name ELSE rec.name \o "/" \o rec.end_tag
    IN  IF rec.end_tag \in {"1", "2"} THEN rec.name ELSE tag

\* Mutant of insert: the value of a key already present is kept
insert_keeps_first(rh, key, val) ==
    [k \in DOMAIN rh \cup {key} |-> IF k \in DOMAIN rh THEN rh[k] ELSE val]

\* HashMap::insert
insert(rh, key, val) == [k \in DOMAIN rh \cup {key} |-> IF k = key THEN val ELSE rh[k]]

\* HashMap::new
EmptyMap == [k \in {} |-> None]

\* let mut read_hash = if param.fastq_file().is_some() { Some(HashMap::new()) } else { None }
new_read_hash(prm) == IF prm.fastq_file # None THEN Some(EmptyMap) ELSE None

\* if let Some(rh) = read_hash.as_mut() { rh.insert(read.qname().to_owned(), map_result) }
store(rh, qname, mr) == IF rh = None THEN None ELSE Some(insert(rh.val, qname, mr))

\* OutputFiles::open: the three common streams unless matched_only is set, and
\* one stream per site name of the catalog
open_output_files(prm) ==
    LET common == IF ~prm.matched_only THEN Some(<<>>) ELSE None
        names == IF prm.cut_sites = None THEN {}
                 ELSE LET chash == prm.cut_sites.val.chash
                      IN  UNION { { chash[c].cut_sites[i].name :
                                      i \in 1..Len(chash[c].cut_sites) } : c \in DOMAIN chash }
    IN  [unmapped |-> common, low_mapq |-> common, unmatched |-> common,
         site_hash |-> [n \in names |-> <<>>]]

\* match mr { Unmapped(_) => ofiles.unmapped.as_mut(), LowMapq(_) => ofiles.low_mapq.as_mut(),
\*            Matched(m) => ofiles.site_hash.get_mut(m.site.name.as_str()),
\*            _ => ofiles.unmatched.as_mut() }: the stream selected, if there is one
select_stream(of, mr, cs) ==
    CASE mr.tag = "Unmapped" -> IF of.unmapped = None THEN None ELSE Some(<<"unmapped">>)
      [] mr.tag = "LowMapQ" -> IF of.low_mapq = None THEN None ELSE Some(<<"low_mapq">>)
      [] mr.tag = "Matched" ->
            IF site_of(cs.val, mr.site).name \in DOMAIN of.site_hash
            THEN Some(<<"site_hash", site_of(cs.val, mr.site).name>>) ELSE None
      [] OTHER -> IF of.unmatched = None THEN None ELSE Some(<<"unmatched">>)

\* FastqFile::write_rec on the selected stream
write_rec(of, wrt, rec) ==
    IF wrt[1] = "site_hash"
    THEN [of EXCEPT !.site_hash[wrt[2]] = Append(@, rec)]
    ELSE [of EXCEPT ![wrt[1]] = Some(Append(@.val, rec))]

DefaultParam ==
    [cut_sites |-> None, select |-> "Start", mapq_thresh |-> 10,
     max_distance |-> 50, max_unmatched |-> 200, margin |-> 0,
     fastq_file |-> None, matched_only |-> FALSE]

SeqsUpTo(S, n) == UNION { [1..k -> S] : k \in 0..n }

----------------------------------------------------------------------------
(* Specification of the locator: find_site on the catalogs read_cut_file   *)
(* builds from small cut-site files                                        *)

LocatorRows ==
    [nf : {5}, contig : {"chrA"}, pos : 1..MaxPos, name : {"site"},
     barcode : {"bc"}, flag : {"true", "false"}]

\* The circular contig with sites only at 5 and 95
ScenarioRows ==
    << [nf |-> 5, contig |-> "chrA", pos |-> 5, name |-> "site5", barcode |-> "bc5", flag |-> "true"],
       [nf |-> 5, contig |-> "chrA", pos |-> 95, name |-> "site95", barcode |-> "bc95", flag |-> "true"] >>

ScenarioLengths == {105, 200}

IsScenario(cs) ==
    /\ "chrA" \in DOMAIN cs.chash
    /\ Len(cs.chash["chrA"].cut_sites) = 2
    /\ cs.chash["chrA"].cut_sites[1].pos = 5
    /\ cs.chash["chrA"].cut_sites[2].pos = 95

\* Contig lengths, positions and distances a query is made with
QueryLengths(cs) == IF IsScenario(cs) THEN ScenarioLengths ELSE {MaxPos - 3, MaxPos, MaxPos + 2}
QueryPositions(cs, l) == IF IsScenario(cs) THEN {l - 2, l} ELSE 0..(MaxPos + 1)
QueryDists(cs) == IF IsScenario(cs) THEN {6, 7, 8} ELSE 0..MaxDist

NoRead == [qname |-> "", qlen |-> 0, records |-> <<>>]

\* The PafFile of a run whose alignment input is given as its groups (paf)
NoFile == [lines |-> <<>>, next |-> 1, buf |-> None, line |-> 0, eof |-> FALSE, ctgs |-> {}]

InitLocate ==
    /\ \E rows \in SeqsUpTo(LocatorRows, MaxSites) \cup {ScenarioRows} :
         \E cat \in read_cut_file(rows) :
            /\ cat # Panic
            /\ param = [DefaultParam EXCEPT !.cut_sites = cat]
    /\ overflow_checks \in BOOLEAN
    /\ cut_file = <<>>
    /\ paf_file = NoFile
    /\ groups = <<>>
    /\ query = None
    /\ found = None
    /\ paf = <<>>
    /\ read = NoRead
    /\ lookup = None
    /\ map_result = None
    /\ output = <<>>
    /\ read_hash = None
    /\ fq_file = None
    /\ ofiles = None
    /\ pc = "locate"

\* One call of CutSites::find_site
Locate ==
    /\ pc = "locate"
    /\ LET cs == param.cut_sites.val IN
       \E contig \in ContigNames, l \in QueryLengths(cs), max_dist \in QueryDists(cs) :
         \E pos \in QueryPositions(cs, l) :
           \E r \in find_site(cs, contig, pos, max_dist, l, overflow_checks) :
              /\ query' = Some([contig |-> contig, pos |-> pos, max_dist |-> max_dist, l |-> l])
              /\ found' = r
              /\ pc' = IF r = Panic THEN "panic" ELSE "located"
    /\ UNCHANGED <<cut_file, param, overflow_checks, paf_file, paf, groups, read, lookup,
                   map_result, output, read_hash, fq_file, ofiles>>

NextLocate == Locate

SpecLocate == InitLocate /\ [][NextLocate]_vars

----------------------------------------------------------------------------
(* Specification of the program: one run of main over an alignment input   *)

MaxQ == 3            \* query coordinates range over 0..MaxQ

QSpans == { sp \in (0..MaxQ) \X (0..MaxQ) : sp[1] < sp[2] }

\* Length of the modelled contigs, as the aligner reports it
TargetLen == 8

\* A query length the slack filter rejects for every modelled contig
LongQuery == TargetLen + Slack

PafRecord(sp, strand, name, ts, te, mb, mapq) ==
    [qstart |-> sp[1], qend |-> sp[2], strand |-> strand, target_name |-> name,
     target_length |-> TargetLen, target_start |-> ts, target_end |-> te,
     matching_bases |-> mb, mapq |-> mapq]

\* Cut-site files of the runs: none of the rows, or two sites on chrA
CutRow(pos, name, barcode, flag) ==
    [nf |-> 5, contig |-> "chrA", pos |-> pos, name |-> name, barcode |-> barcode, flag |-> flag]
EmptyFile == <<>>
LinearFile == << CutRow(5, "siteB", "bcB", "false"), CutRow(2, "siteA", "bcA", "false") >>
CircularFile == << CutRow(5, "siteB", "bcB", "yes"), CutRow(2, "siteA", "bcA", "TRUE") >>

\* process_cli: the Param of a run without cut file, or with the catalog
\* read_cut_file builds from one of the files
Params(files, withNone, selects, threshs, dists, unmatched, margins) ==
    { [cut_sites |-> cs, select |-> sel, mapq_thresh |-> th, max_distance |-> md,
       max_unmatched |-> mu, margin |-> mg, fastq_file |-> None, matched_only |-> FALSE] :
        cs \in (IF withNone THEN {None} ELSE {}) \cup
               (UNION { read_cut_file(f) : f \in files } \ {Panic}),
        sel \in selects, th \in threshs, md \in dists, mu \in unmatched, mg \in margins }

PafReads(recs, qlens) ==
    { [qname |-> "read1", qlen |-> ql, records |-> rs] :
        ql \in qlens, rs \in { <<r>> : r \in recs } \cup (recs \X recs) }

\* Inputs of the pre-checks and the overlap guard: groups over two contigs and
\* the unmapped name, every mapping quality, absent, empty and filled catalog
GuardRecords ==
    { PafRecord(sp, st, nm, 1, 6, 1, mq) :
        sp \in QSpans, st \in Strands, nm \in {"chrA", "chrB", "*"}, mq \in {0, 5, 10} }
GuardParams == Params({EmptyFile, LinearFile}, TRUE, {"Start"}, {0, 10}, {50}, {200}, {0})
GuardReads == PafReads(GuardRecords, {MaxQ, LongQuery})

\* Inputs of the match table: groups on chrA around its sites, every strategy
MatchRecords ==
    { PafRecord(sp, st, "chrA", ts, 6, mb, 10) :
        sp \in QSpans, st \in Strands, ts \in {1, 4}, mb \in {1, 2} }
MatchParams == Params({LinearFile, CircularFile}, FALSE, Strategies, {10}, {0, 1}, {0, 1}, {0, 1})
MatchReads == PafReads(MatchRecords, {MaxQ})

Init ==
    /\ \/ param \in GuardParams /\ \E rd \in GuardReads : paf = <<rd>>
       \/ param \in MatchParams /\ \E rd \in MatchReads : paf = <<rd>>
    /\ overflow_checks \in BOOLEAN
    /\ cut_file = <<>>
    /\ paf_file = NoFile
    /\ groups = <<>>
    /\ query = None
    /\ found = None
    /\ read = NoRead
    /\ lookup = None
    /\ map_result = None
    /\ output = <<>>
    /\ read_hash = None
    /\ fq_file = None
    /\ ofiles = None
    /\ pc = "main"

\* Mutant of writeln: the row is put before the rows already written
writeln_at_front(out, row) == <<row>> \o out

\* writeln!(output, "{}\t{}", read.qname(), map_result)
writeln(out, row) == Append(out, row)

\* One iteration of the loop over paf_file.next_read()
ProcessRead ==
    /\ pc = "main"
    /\ paf # <<>>
    /\ read' = Head(paf)
    /\ paf' = Tail(paf)
    /\ groups' = Append(groups, Head(paf))
    /\ \E c \in classify(Head(paf), param, overflow_checks) :
         /\ map_result' = c.result
         /\ lookup' = c.run
         /\ IF c.result = Panic
            THEN output' = output /\ read_hash' = read_hash /\ pc' = "panic"
            ELSE /\ output' = writeln(output, [qname |-> Head(paf).qname, result |-> c.result])
                 /\ read_hash' = store(read_hash, Head(paf).qname, c.result)
                 /\ pc' = "main"
    /\ UNCHANGED <<cut_file, param, overflow_checks, query, found, paf_file, fq_file, ofiles>>

\* next_read returns None: the loop ends; the run ends too unless a FASTQ
\* input is named, whose streams and reader are opened then
Finish ==
    /\ pc = "main"
    /\ paf = <<>>
    /\ IF param.fastq_file = None
       THEN pc' = "done" /\ UNCHANGED <<fq_file, ofiles>>
       ELSE /\ ofiles' = Some(open_output_files(param))
            /\ fq_file' = Some(fastq_open(param.fastq_file.val))
            /\ pc' = "fastq"
    /\ UNCHANGED <<cut_file, param, overflow_checks, query, found, paf_file, paf, groups, read,
                   lookup, map_result, output, read_hash>>

Next == ProcessRead \/ Finish

Spec == Init /\ [][Next]_vars

----------------------------------------------------------------------------
(* Properties of the locator (checked under SpecLocate)                    *)

Called == query # None
QContig == query.val.contig
QPos == query.val.pos
KnownContig == QContig \in DOMAIN param.cut_sites.val.chash
QCtg == param.cut_sites.val.chash[QContig]
QSites == QCtg.cut_sites
ExactAt(i) == i \in 1..Len(QSites) /\ QSites[i].pos = QPos
HasExact == \E i \in 1..Len(QSites) : ExactAt(i)
\* QPos lies strictly between the adjacent sites i and i+1 (1-based)
BetweenAt(i) ==
    /\ i \in 1..(Len(QSites) - 1)
    /\ QSites[i].pos < QPos
    /\ QPos < QSites[i + 1].pos
Min(a, b) == IF a <= b THEN a ELSE b
\* The result find_site must give between sites i and i+1 when a tie goes to
\* the predecessor (tiePred) or to the successor
BetweenResult(i, tiePred) ==
    LET x == QPos - QSites[i].pos
        y == QSites[i + 1].pos - QPos
        pred == x < y \/ (tiePred /\ x = y)
    IN  IF Min(x, y) <= query.val.max_dist
        THEN Some([contig |-> QContig, ix |-> IF pred THEN i - 1 ELSE i])
        ELSE None

\* C2 as stated: between two adjacent sites find_site returns the closer one
\* (when within max_dist), and on an exact midpoint tie the predecessor.
C2_TieToPredecessor ==
    (Called /\ KnownContig) =>
        \A i \in 1..(Len(QSites) - 1) : BetweenAt(i) => found = BetweenResult(i, TRUE)

\* C2 amended: between two adjacent sites find_site returns the strictly closer
\* one (when within max_dist), and on an exact midpoint tie the successor.
C2_TieToSuccessor ==
    (Called /\ KnownContig) =>
        \A i \in 1..(Len(QSites) - 1) : BetweenAt(i) => found = BetweenResult(i, FALSE)

\* A midpoint query answered with the successor
C2_Witness ==
    /\ Called /\ KnownContig
    /\ \E i \in 1..(Len(QSites) - 1) :
         /\ BetweenAt(i)
         /\ QPos - QSites[i].pos = QSites[i + 1].pos - QPos
         /\ found = Some([contig |-> QContig, ix |-> i])

\* C3 as stated: on the circular contig with sites only at 5 and 95, a query at
\* L-2 with max_dist >= 7 returns the site at 5 (index 0).
C3_WrapsToFirstSite ==
    (/\ Called /\ IsScenario(param.cut_sites.val) /\ QContig = "chrA"
     /\ QPos = query.val.l - 2 /\ query.val.max_dist >= 7)
        => found = Some([contig |-> "chrA", ix |-> 0])

\* C4: a query at the position of a site returns a site at that position,
\* whatever max_dist and the contig length are.
C4_ExactMatchIgnoresMaxDist ==
    (Called /\ KnownContig /\ HasExact) =>
        /\ found.kind = "Some"
        /\ found.val.contig = QContig
        /\ found.val.ix \in 0..(Len(QSites) - 1)
        /\ site_of(param.cut_sites.val, found).pos = QPos

\* An exact match answered with max_dist = 0
C4_Witness ==
    /\ Called /\ KnownContig /\ HasExact
    /\ query.val.max_dist = 0
    /\ found.kind = "Some"
    /\ site_of(param.cut_sites.val, found).pos = QPos

\* Distance of site i to the query: linear, or on the ring of size l
Abs(a) == IF a < 0 THEN -a ELSE a
SiteDistance(i) ==
    LET lin == Abs(QPos - QSites[i].pos) IN
    IF QCtg.circular = Some(TRUE) THEN Min(lin, query.val.l - lin) ELSE lin
NearestDistance(i) == \A j \in 1..Len(QSites) : SiteDistance(i) <= SiteDistance(j)
\* The query and every site of the contig lie on the contig: 1..l
OnContig ==
    /\ QPos \in 1..query.val.l
    /\ \A i \in 1..Len(QSites) : QSites[i].pos \in 1..query.val.l

\* C5 as stated: without an exact match, find_site returns a site iff the
\* nearest site (linear distance, ring distance on a circular contig) is within
\* max_dist, and then a nearest one; an unknown contig gives no match.
C5_NearestWithinDistance ==
    Called =>
        IF ~KnownContig THEN found = None
        ELSE (~HasExact /\ OnContig) =>
               IF \E i \in 1..Len(QSites) : SiteDistance(i) <= query.val.max_dist
               THEN /\ found.kind = "Some"
                    /\ NearestDistance(found.val.ix + 1)
               ELSE found = None

----------------------------------------------------------------------------
(* Specification of the match table: the match of PafRead::find_site on    *)
(* every pair of lookup results, strategy and unused count                 *)

TableSites == { Some([contig |-> "chrA", ix |-> i]) : i \in 0..1 }
TableLoc(unused) ==
    [strand |-> "Plus", start |-> <<1, 1>>, end |-> <<6, 6>>, length |-> MaxQ,
     unused |-> unused, splits |-> <<>>]

InitTable ==
    /\ param \in Params({LinearFile}, FALSE, Strategies, {10}, {50}, {0, 1}, {0})
    /\ \E ss \in TableSites \cup {None}, es \in TableSites \cup {None}, unused \in 0..MaxQ :
         lookup = Some(Found(None, <<>>, ss, es, unused))
    /\ overflow_checks \in BOOLEAN
    /\ cut_file = <<>>
    /\ paf_file = NoFile
    /\ groups = <<>>
    /\ query = None
    /\ found = None
    /\ paf = <<>>
    /\ read = NoRead
    /\ map_result = None
    /\ output = <<>>
    /\ read_hash = None
    /\ fq_file = None
    /\ ofiles = None
    /\ pc = "table"

\* The match expression and the mapping of its FindMatch to a MapResult
ResolveTable ==
    /\ pc = "table"
    /\ LET l == lookup.val
           fm == resolve_match(l.start_site, l.end_site, param.select, "chrA",
                               TableLoc(l.unused), param.max_unmatched)
       IN  /\ lookup' = Some([l EXCEPT !.fm = Some(fm)])
           /\ map_result' = map_find_match(fm)
    /\ pc' = "tabled"
    /\ UNCHANGED <<cut_file, param, overflow_checks, query, found, paf_file, paf, groups, read,
                   output, read_hash, fq_file, ofiles>>

NextTable == ResolveTable

SpecTable == InitTable /\ [][NextTable]_vars

----------------------------------------------------------------------------
(* Properties of the classifier (checked under Spec, C8 under SpecTable)   *)

Classified == read # NoRead
\* The outcome tag and the resolved site of map_result ("" and None without)
Tag == IF "tag" \in DOMAIN map_result THEN map_result.tag ELSE ""
ResultSite == IF "site" \in DOMAIN map_result THEN map_result.site ELSE None
Threshold == param.mapq_thresh
HasUnmappedSegment == \E i \in 1..Len(read.records) : read.records[i].target_name = "*"
HasPassingSegment == \E i \in 1..Len(read.records) : read.records[i].mapq >= Threshold
PassesPreChecks ==
    Classified /\ ~HasUnmappedSegment /\ HasPassingSegment /\ param.cut_sites # None
\* PafRead::find_site ran and collected segments
Collected == lookup # None /\ Len(lookup.val.recs) > 0
\* The collected segments, in query-start order, hold a consecutive pair whose
\* successor starts at or before the end of its predecessor
OverlapPair ==
    \E k \in 1..(Len(lookup.val.recs) - 1) :
        lookup.val.recs[k + 1].qstart <= lookup.val.recs[k].qend
OutcomeTags ==
    {"Unmapped", "LowMapQ", "NoCutSites", "Unmatched", "MisMatch", "MatchStart",
     "MatchEnd", "MatchBoth", "Matched", "ExcessUnmatched"}
ReportRow == [qname |-> read.qname, result |-> map_result]

\* C1 as stated: a group that passes the pre-checks and whose collected segments
\* overlap produces no outcome at all.
C1_NoOutcome ==
    (PassesPreChecks /\ Collected /\ OverlapPair) =>
        /\ Tag \notin OutcomeTags
        /\ output = <<>>

\* C1 amended: for such a group the classifier returns no FindMatch, and main
\* reports LowMapQ(query length) for the read; no other outcome is produced.
C1_OverlapGivesLowMapQ ==
    (PassesPreChecks /\ Collected /\ OverlapPair) =>
        /\ lookup.val.fm = None
        /\ map_result = MapQlen("LowMapQ", read.qlen)
        /\ output = <<ReportRow>>

\* Two collected segments that only touch (qend = qstart), reported as LowMapQ
C1_Witness ==
    /\ PassesPreChecks /\ Collected
    /\ \E k \in 1..(Len(lookup.val.recs) - 1) :
         lookup.val.recs[k + 1].qstart = lookup.val.recs[k].qend
    /\ Tag = "LowMapQ"
    /\ Len(output) = 1

\* C6: an unmapped segment gives Unmapped(qlen) whatever the other segments are;
\* otherwise no segment at the threshold gives LowMapQ(qlen) whatever the
\* catalog is; the classifier (and with it the catalog) is used only otherwise.
C6_PreCheckOrder ==
    Classified =>
        /\ HasUnmappedSegment => (map_result = MapQlen("Unmapped", read.qlen) /\ lookup = None)
        /\ (~HasUnmappedSegment /\ ~HasPassingSegment) =>
              (map_result = MapQlen("LowMapQ", read.qlen) /\ lookup = None)
        /\ lookup # None => (~HasUnmappedSegment /\ HasPassingSegment)

\* An unmapped segment beside one that passes the threshold, with a catalog
C6_Witness ==
    /\ Classified /\ HasUnmappedSegment /\ HasPassingSegment
    /\ param.cut_sites # None
    /\ Tag = "Unmapped"

CatalogEmpty == param.cut_sites # None /\ DOMAIN param.cut_sites.val.chash = {}

\* C7 as stated: a mapped group with a segment at the threshold gets
\* NoCutSites(qlen) when no catalog was supplied and when the catalog is empty.
C7_NoCutSitesAbsentOrEmpty ==
    (Classified /\ ~HasUnmappedSegment /\ HasPassingSegment
     /\ (param.cut_sites = None \/ CatalogEmpty))
        => map_result = MapQlen("NoCutSites", read.qlen)

\* C7 amended: such a group gets NoCutSites(qlen) exactly when no catalog was
\* supplied; with an empty catalog the classifier runs, and the outcome it
\* produces is Unmatched or LowMapQ(qlen).
C7_NoCutSitesOnlyWhenAbsent ==
    (Classified /\ ~HasUnmappedSegment /\ HasPassingSegment) =>
        /\ param.cut_sites = None => (map_result = MapQlen("NoCutSites", read.qlen) /\ lookup = None)
        /\ param.cut_sites # None => (lookup # None /\ map_result # MapQlen("NoCutSites", read.qlen))
        /\ CatalogEmpty =>
              \/ map_result = Panic
              \/ map_result = MapQlen("LowMapQ", read.qlen)
              \/ (Tag = "Unmatched" /\ ResultSite = None)

\* A group classified against an empty catalog: Unmatched
C7_Witness ==
    /\ Classified /\ ~HasUnmappedSegment /\ HasPassingSegment
    /\ CatalogEmpty
    /\ Tag = "Unmatched"

\* The match table was reached with these lookup results
AtTable == lookup # None /\ lookup.val.fm # None /\ lookup.val.fm # Panic
StartSite == lookup.val.start_site
EndSite == lookup.val.end_site
\* The tag of a Matched/ExcessUnmatched cell
BudgetTag == IF lookup.val.unused > param.max_unmatched THEN "ExcessUnmatched" ELSE "Matched"

\* C8: both lookups return a site: the same site gives MatchBoth under Xor and
\* Matched/ExcessUnmatched with that site under Start, Both and Either;
\* different sites give MisMatch under every strategy.
C8_BothEndsMatched ==
    (pc = "tabled" /\ AtTable /\ StartSite # None /\ EndSite # None) =>
        IF StartSite = EndSite
        THEN IF param.select = "Xor"
             THEN Tag = "MatchBoth" /\ ResultSite = None
             ELSE Tag = BudgetTag /\ ResultSite = StartSite
        ELSE Tag = "MisMatch" /\ ResultSite = None

\* The same site at both ends under Xor
C8_Witness ==
    /\ pc = "tabled" /\ AtTable
    /\ StartSite # None /\ StartSite = EndSite
    /\ param.select = "Xor"
    /\ Tag = "MatchBoth"

\* C9: only the start lookup returns a site: MatchStart (no site) under Both,
\* Matched/ExcessUnmatched with the start site under Start, Either and Xor.
C9_StartOnly ==
    (Classified /\ AtTable /\ StartSite # None /\ EndSite = None) =>
        IF param.select = "Both"
        THEN Tag = "MatchStart" /\ ResultSite = None
        ELSE Tag = BudgetTag /\ ResultSite = StartSite

\* A start-only match under Both
C9_Witness ==
    /\ Classified /\ AtTable /\ StartSite # None /\ EndSite = None
    /\ param.select = "Both"
    /\ Tag = "MatchStart"

\* C10: only the end lookup returns a site: Matched/ExcessUnmatched with the end
\* site under Either and Xor, MatchEnd (no site) under Start and Both.
C10_EndOnly ==
    (Classified /\ AtTable /\ StartSite = None /\ EndSite # None) =>
        IF param.select \in {"Either", "Xor"}
        THEN Tag = BudgetTag /\ ResultSite = EndSite
        ELSE Tag = "MatchEnd" /\ ResultSite = None

\* An end-only match under Xor
C10_Witness ==
    /\ Classified /\ AtTable /\ StartSite = None /\ EndSite # None
    /\ param.select = "Xor"
    /\ Tag = "Matched"
    /\ ResultSite = EndSite

\* The anchor of the classified read and its contig
Anchor == read.records[find_anchor(read, Threshold).val]
ResultContig == IF "contig" \in DOMAIN map_result THEN map_result.contig ELSE ""

\* C11: neither lookup returns a site (also when the anchor's contig is not in
\* a non-empty catalog): the outcome is Unmatched, a plain Location with the
\* anchor's contig, under every strategy.
C11_NoMatchUnmatched ==
    (Classified /\ AtTable /\ StartSite = None /\ EndSite = None) =>
        /\ Tag = "Unmatched"
        /\ ResultSite = None
        /\ ResultContig = Anchor.target_name
        /\ map_result.inner.length = read.qlen

\* A read anchored on chrB classified against a catalog that only holds chrA
C11_Witness ==
    /\ Classified /\ AtTable /\ StartSite = None /\ EndSite = None
    /\ ~CatalogEmpty
    /\ Anchor.target_name = "chrB"
    /\ Tag = "Unmatched"
    /\ ResultContig = "chrB"

\* The outcome the table of the classifier lists for a pair of lookup results
\* and a strategy; "Budget" stands for the Matched/ExcessUnmatched cells
ListedTag(ss, es, sel) ==
    CASE ss # None /\ es # None /\ ss = es -> IF sel = "Xor" THEN "MatchBoth" ELSE "Budget"
      [] ss # None /\ es # None /\ ss # es -> "MisMatch"
      [] ss # None /\ es = None -> IF sel = "Both" THEN "MatchStart" ELSE "Budget"
      [] ss = None /\ es # None -> IF sel \in {"Either", "Xor"} THEN "Budget" ELSE "MatchEnd"
      [] OTHER -> "Unmatched"
\* The site a Matched/ExcessUnmatched cell resolves to
ListedSite(ss, es) == IF ss # None THEN ss ELSE es

\* C12: in a Matched/ExcessUnmatched cell the outcome is ExcessUnmatched exactly
\* when unused > max_unmatched and Matched otherwise, with the same resolved
\* site; in every other cell the tag does not depend on unused.
C12_UnmatchedBudget ==
    (pc = "tabled" /\ AtTable) =>
        IF ListedTag(StartSite, EndSite, param.select) = "Budget"
        THEN /\ Tag = (IF lookup.val.unused > param.max_unmatched
                       THEN "ExcessUnmatched" ELSE "Matched")
             /\ ResultSite = ListedSite(StartSite, EndSite)
        ELSE /\ Tag = ListedTag(StartSite, EndSite, param.select)
             /\ ResultSite = None

\* unused equal to a threshold of one base: Matched
C12_Witness ==
    /\ pc = "tabled" /\ AtTable
    /\ param.max_unmatched = 1
    /\ lookup.val.unused = param.max_unmatched
    /\ ListedTag(StartSite, EndSite, param.select) = "Budget"
    /\ Tag = "Matched"
    /\ ResultSite # None

\* unused one above the threshold: ExcessUnmatched with the same site
C12_WitnessAbove ==
    /\ pc = "tabled" /\ AtTable
    /\ lookup.val.unused = param.max_unmatched + 1
    /\ ListedTag(StartSite, EndSite, param.select) = "Budget"
    /\ Tag = "ExcessUnmatched"
    /\ ResultSite = ListedSite(StartSite, EndSite)

\* The match-pair shape of two lookup results
Shapes == {"same", "different", "start", "end", "neither"}
ShapeOf(ss, es) ==
    CASE ss # None /\ es # None /\ ss = es -> "same"
      [] ss # None /\ es # None /\ ss # es -> "different"
      [] ss # None /\ es = None -> "start"
      [] ss = None /\ es # None -> "end"
      [] OTHER -> "neither"
\* A run of the classifier that reaches the match with this shape and gives the
\* outcome the table lists for it
ReachesListed(f, shape, sel) ==
    /\ f.fm.kind = "Some"
    /\ ShapeOf(f.start_site, f.end_site) = shape
    /\ LET t == map_find_match(f.fm.val).tag
           l == ListedTag(f.start_site, f.end_site, sel)
       IN  IF l = "Budget" THEN t \in {"Matched", "ExcessUnmatched"} ELSE t = l

\* C13 as stated: for every match-pair shape and every strategy there is an
\* alignment group and a catalog on which the classifier reaches that
\* combination and produces the listed outcome.
C13_EveryCombinationReached ==
    \A shape \in Shapes, sel \in Strategies :
        \E prm \in { p \in MatchParams : p.select = sel }, rd \in MatchReads :
            \E f \in read_find_site(rd, prm.cut_sites.val, prm, overflow_checks) :
                ReachesListed(f, shape, sel)

----------------------------------------------------------------------------
(* Specification of a run with the default configuration on a catalog with *)
(* one site: chrA (length 1000, linear), siteA at 500 with barcode bcA      *)

EndToEndFile ==
    << [nf |-> 5, contig |-> "chrA", pos |-> 500, name |-> "siteA", barcode |-> "bcA",
        flag |-> "false"] >>
EndToEndParams ==
    { [DefaultParam EXCEPT !.cut_sites = cat, !.select = sel] :
        cat \in read_cut_file(EndToEndFile) \ {Panic}, sel \in Strategies }
\* One segment of 120 query bases on chrA that ends at target 600
EndToEndRecords ==
    { [PafRecord(<<0, 120>>, st, "chrA", ts, 600, 110, mq) EXCEPT !.target_length = 1000] :
        st \in Strands, ts \in {449, 450, 480, 500, 550, 551}, mq \in {9, 11, 60} }
EndToEndReads ==
    { [qname |-> "read1", qlen |-> ql, records |-> <<r>>] :
        ql \in {120, 320, 321}, r \in EndToEndRecords }

InitEndToEnd ==
    /\ param \in EndToEndParams
    /\ \E rd \in EndToEndReads : paf = <<rd>>
    /\ overflow_checks \in BOOLEAN
    /\ cut_file = <<>>
    /\ paf_file = NoFile
    /\ groups = <<>>
    /\ query = None
    /\ found = None
    /\ read = NoRead
    /\ lookup = None
    /\ map_result = None
    /\ output = <<>>
    /\ read_hash = None
    /\ fq_file = None
    /\ ofiles = None
    /\ pc = "main"

SpecEndToEnd == InitEndToEnd /\ [][Next]_vars

\* The run of the scenario: default configuration, strategy Start, one
\* plus-strand segment spanning target 480-600 with mapping quality above the
\* threshold and no unused base
IsEndToEnd ==
    /\ Classified
    /\ [param EXCEPT !.cut_sites = None] = DefaultParam
    /\ param.cut_sites # None
    /\ Len(read.records) = 1
    /\ read.records[1].strand = "Plus"
    /\ read.records[1].target_name = "chrA"
    /\ read.records[1].target_start = 480
    /\ read.records[1].target_end = 600
    /\ read.records[1].mapq > Threshold
    /\ read.qlen = read.records[1].qend - read.records[1].qstart

\* C14: the run of the scenario gives Matched with resolved site siteA and
\* barcode bcA.
C14_EndToEndMatched ==
    IsEndToEnd =>
        /\ Tag = "Matched"
        /\ ResultSite # None
        /\ site_of(param.cut_sites.val, ResultSite).name = "siteA"
        /\ site_of(param.cut_sites.val, ResultSite).barcode = "bcA"
        /\ output = <<ReportRow>>

\* The scenario, classified and reported as Matched
C14_Witness ==
    /\ IsEndToEnd
    /\ Tag = "Matched"
    /\ lookup.val.unused = 0
    /\ Len(output) = 1

----------------------------------------------------------------------------
(* Specification of the reader: successive calls of next_read on small     *)
(* alignment inputs                                                        *)

MaxLines == 3        \* lines of an alignment input

\* Query spans of the lines: two proper ones, an empty and a reversed one
PafSpans == { <<0, 1>>, <<1, 3>>, <<2, 2>>, <<2, 1>> }

PafLines ==
    { [nf |-> 12, qname |-> qn, qlen |-> ql, qstart |-> sp[1], qend |-> sp[2], strand |-> "+",
       target_name |-> "chrA", target_length |-> TargetLen, target_start |-> 1,
       target_end |-> 6, matching_bases |-> 1, mapq |-> 10] :
        qn \in {"read1", "read2"}, ql \in {2, 3}, sp \in PafSpans }

\* PafFile::open
open(lines) == [lines |-> lines, next |-> 1, buf |-> None, line |-> 0, eof |-> FALSE, ctgs |-> {}]

InitPaf ==
    /\ \E lines \in SeqsUpTo(PafLines, MaxLines) : paf_file = open(lines)
    /\ param = DefaultParam
    /\ overflow_checks \in BOOLEAN
    /\ cut_file = <<>>
    /\ paf = <<>>
    /\ groups = <<>>
    /\ query = None
    /\ found = None
    /\ read = NoRead
    /\ lookup = None
    /\ map_result = None
    /\ output = <<>>
    /\ read_hash = None
    /\ fq_file = None
    /\ ofiles = None
    /\ pc = "reading"

\* One call of next_read; it may be called again after it returned no read
NextRead ==
    /\ pc \in {"reading", "end"}
    /\ paf_file.line <= Len(paf_file.lines) + 1
    /\ LET r == next_read(paf_file) IN
         /\ paf_file' = r.file
         /\ IF r.result.kind = "Err" THEN groups' = groups /\ pc' = "error"
            ELSE IF r.result.val = None THEN groups' = groups /\ pc' = "end"
            ELSE groups' = Append(groups, r.result.val.val) /\ pc' = "reading"
    /\ UNCHANGED <<cut_file, param, overflow_checks, query, found, paf, read, lookup, map_result,
                   output, read_hash, fq_file, ofiles>>

NextPaf == NextRead

SpecPaf == InitPaf /\ [][NextPaf]_vars

----------------------------------------------------------------------------
(* Properties of the reader (checked under SpecPaf)                        *)

Lines == paf_file.lines
\* Length of the maximal run of lines at the head of ls that share its read name
RECURSIVE RunLength(_)
RunLength(ls) ==
    IF Len(ls) <= 1 THEN Len(ls)
    ELSE IF ls[2].qname = ls[1].qname THEN 1 + RunLength(Tail(ls)) ELSE 1
\* The maximal runs of consecutive lines sharing the read name, in input order
RECURSIVE RunsOf(_)
RunsOf(ls) ==
    IF ls = <<>> THEN <<>>
    ELSE LET k == RunLength(ls) IN
         <<SubSeq(ls, 1, k)>> \o RunsOf(SubSeq(ls, k + 1, Len(ls)))
\* The segment a line describes and the alignment group a run describes
SegmentOf(l) ==
    [qstart |-> l.qstart, qend |-> l.qend, strand |-> IF l.strand = "+" THEN "Plus" ELSE "Minus",
     target_name |-> l.target_name, target_length |-> l.target_length,
     target_start |-> l.target_start, target_end |-> l.target_end,
     matching_bases |-> l.matching_bases, mapq |-> l.mapq]
GroupOf(run) ==
    [qname |-> run[1].qname, qlen |-> run[1].qlen,
     records |-> [i \in 1..Len(run) |-> SegmentOf(run[i])]]
\* A line breaks the segment invariant of a group of query length qlen
BreaksInvariant(l, qlen) == l.qend <= l.qstart \/ l.qend > qlen
RunBreaksInvariant(run) == \E i \in 1..Len(run) : BreaksInvariant(run[i], run[1].qlen)
WellFormed(ls) == \A i \in 1..Len(RunsOf(ls)) : ~RunBreaksInvariant(RunsOf(ls)[i])
\* The groups returned so far are those of the first runs of the input
GroupsAreFirstRuns ==
    /\ Len(groups) <= Len(RunsOf(Lines))
    /\ \A i \in 1..Len(groups) : groups[i] = GroupOf(RunsOf(Lines)[i])

\* C15: on well-formed lines the calls of next_read return, in order, one group
\* per maximal run of consecutive lines sharing the read name, each holding
\* exactly the lines of its run in arrival order; no call fails, the call at
\* the end of the input returns no group, and then every group was returned
\* and no later call returns one.
C15_Grouping ==
    WellFormed(Lines) =>
        /\ pc # "error"
        /\ GroupsAreFirstRuns
        /\ pc = "end" => Len(groups) = Len(RunsOf(Lines))

\* Three lines read1, read1, read2 returned as two groups, then no group
C15_Witness ==
    /\ WellFormed(Lines)
    /\ Len(Lines) = 3
    /\ pc = "end"
    /\ paf_file.eof
    /\ Len(groups) = 2
    /\ Len(groups[1].records) = 2
    /\ groups[1].qname # groups[2].qname

\* C20: every segment of every returned group has qend > qstart and
\* qend <= the query length of the group; a group is returned only for a run
\* without a line that breaks this, the input is read to its end only when no
\* line breaks it, and a failing call is one that met such a line in the run
\* it was reading.
C20_SegmentInvariant ==
    /\ \A i \in 1..Len(groups) : \A j \in 1..Len(groups[i].records) :
          /\ groups[i].records[j].qend > groups[i].records[j].qstart
          /\ groups[i].records[j].qend <= groups[i].qlen
    /\ GroupsAreFirstRuns
    /\ \A i \in 1..Len(groups) : ~RunBreaksInvariant(RunsOf(Lines)[i])
    /\ pc = "end" => WellFormed(Lines)
    /\ pc = "error" =>
          /\ Len(groups) < Len(RunsOf(Lines))
          /\ RunBreaksInvariant(RunsOf(Lines)[Len(groups) + 1])
    /\ (pc = "reading" /\ ~WellFormed(Lines)) => Len(groups) < Len(RunsOf(Lines))

\* A call that fails on the second line of a group, whose end lies beyond the
\* query length the first line gave
C20_Witness ==
    /\ pc = "error"
    /\ paf_file.buf # None
    /\ paf_file.next = 3
    /\ Lines[1].qname = Lines[2].qname
    /\ ~BreaksInvariant(Lines[1], Lines[1].qlen)
    /\ Lines[2].qend > Lines[2].qstart
    /\ Lines[2].qend > Lines[1].qlen
    /\ Lines[2].qend <= Lines[2].qlen
    /\ groups = <<>>

----------------------------------------------------------------------------
(* Specification of a run over several reads: the order of the report      *)

MaxReads == 3        \* alignment groups of an input

\* Groups of one segment: unmapped, below the threshold, mapped on chrA
OrderRecords ==
    { PafRecord(<<0, MaxQ>>, "Plus", "*", 0, 0, 0, 0),
      PafRecord(<<0, MaxQ>>, "Plus", "chrA", 1, 6, 1, 5),
      PafRecord(<<0, MaxQ>>, "Plus", "chrA", 1, 6, 1, 10),
      PafRecord(<<0, MaxQ>>, "Minus", "chrA", 1, 6, 1, 10) }
OrderReads ==
    { [qname |-> qn, qlen |-> MaxQ, records |-> <<r>>] :
        qn \in {"read1", "read2", "read3"}, r \in OrderRecords }
\* next_read ends a group at a changed read name: neighbours differ in name
OrderInputs ==
    { in \in SeqsUpTo(OrderReads, MaxReads) :
        \A i \in 1..(Len(in) - 1) : in[i].qname # in[i + 1].qname }
OrderParams == Params({LinearFile}, TRUE, {"Start"}, {10}, {1}, {200}, {0})

InitOrder ==
    /\ param \in OrderParams
    /\ paf \in OrderInputs
    /\ overflow_checks \in BOOLEAN
    /\ cut_file = <<>>
    /\ paf_file = NoFile
    /\ groups = <<>>
    /\ query = None
    /\ found = None
    /\ read = NoRead
    /\ lookup = None
    /\ map_result = None
    /\ output = <<>>
    /\ read_hash = None
    /\ fq_file = None
    /\ ofiles = None
    /\ pc = "main"

SpecOrder == InitOrder /\ [][Next]_vars

\* C16: the rows of the report are, in order, the rows of the groups consumed
\* from the input: row i carries the name of the i-th consumed group and an
\* outcome of classifying it, one row for every consumed group.
C16_OutputOrder ==
    /\ Len(output) <= Len(groups)
    /\ \A i \in 1..Len(output) :
          /\ output[i].qname = groups[i].qname
          /\ output[i].result \in { c.result : c \in classify(groups[i], param, overflow_checks) }
    /\ pc # "panic" => Len(output) = Len(groups)
    /\ pc = "done" => paf = <<>>

\* Three groups read2, read1, read2 with different outcomes, reported in the
\* order of the input
C16_Witness ==
    /\ pc = "done"
    /\ Len(output) = 3
    /\ <<output[1].qname, output[2].qname, output[3].qname>> = <<"read2", "read1", "read2">>
    /\ output[1].result.tag = "Unmapped"
    /\ output[2].result.tag = "Matched"
    /\ output[3].result.tag = "LowMapQ"

----------------------------------------------------------------------------
(* Specification of the catalog: process_cli reads a small cut file         *)

\* Rows of four and of five fields on two contigs; the site is named after its
\* position
CatalogRows ==
    { [nf |-> nf, contig |-> c, pos |-> pos, name |-> IF pos = 1 THEN "site1" ELSE "site2",
       barcode |-> "bc", flag |-> fl] :
        nf \in {4, 5}, c \in ContigNames, pos \in {1, 2}, fl \in {"true", "NO"} }

InitCatalog ==
    /\ cut_file \in SeqsUpTo(CatalogRows, MaxSites)
    /\ param = DefaultParam
    /\ overflow_checks \in BOOLEAN
    /\ paf_file = NoFile
    /\ paf = <<>>
    /\ groups = <<>>
    /\ query = None
    /\ found = None
    /\ read = NoRead
    /\ lookup = None
    /\ map_result = None
    /\ output = <<>>
    /\ read_hash = None
    /\ fq_file = None
    /\ ofiles = None
    /\ pc = "cli"

\* process_cli: pb.cut_sites(read_cut_file(file))
ReadCutFile ==
    /\ pc = "cli"
    /\ \E cat \in read_cut_file(cut_file) :
         IF cat = Panic THEN param' = param /\ pc' = "panic"
         ELSE param' = [param EXCEPT !.cut_sites = cat] /\ pc' = "ready"
    /\ UNCHANGED <<cut_file, overflow_checks, query, found, paf_file, paf, groups, read, lookup,
                   map_result, output, read_hash, fq_file, ofiles>>

NextCatalog == ReadCutFile

SpecCatalog == InitCatalog /\ [][NextCatalog]_vars

----------------------------------------------------------------------------
(* Properties of the catalog (C17 under SpecLocate, C18 and C19 under      *)
(* SpecCatalog)                                                            *)

Catalog == param.cut_sites.val.chash
SortedCatalog ==
    param.cut_sites # None =>
        \A c \in DOMAIN Catalog :
            \A i \in 1..(Len(Catalog[c].cut_sites) - 1) :
                Catalog[c].cut_sites[i].pos <= Catalog[c].cut_sites[i + 1].pos

\* C17: the site list of every contig of the catalog read_cut_file returned is
\* sorted ascending by position, and a call of find_site changes no contig,
\* site list or circular flag of the catalog.
C17_SortedAndImmutable == []SortedCatalog /\ [][param' = param]_vars

\* A catalog with three sites at different positions, queried with success
C17_Witness ==
    /\ Called /\ KnownContig
    /\ Len(QSites) = 3
    /\ QSites[1].pos < QSites[2].pos
    /\ QSites[2].pos < QSites[3].pos
    /\ found.kind = "Some"

\* The rows of the cut file that carry a circular flag, and its value
CarriesFlag(r) == r.nf > 4
FlagValue(r) == to_lowercase(r.flag) \in {"true", "yes", "1"}
FlagRows(c) == { i \in 1..Len(cut_file) : cut_file[i].contig = c /\ CarriesFlag(cut_file[i]) }
FlagConflict ==
    \E i, j \in 1..Len(cut_file) :
        /\ i < j
        /\ cut_file[i].contig = cut_file[j].contig
        /\ CarriesFlag(cut_file[i]) /\ CarriesFlag(cut_file[j])
        /\ FlagValue(cut_file[i]) # FlagValue(cut_file[j])
CatalogRead == pc \in {"ready", "panic"}

\* C18: two rows of one contig that carry different circular flags abort the
\* construction; in a returned catalog every contig has the flag of the first
\* of its rows that carries one, and all its rows carry that value.
C18_FlagConsistency ==
    CatalogRead =>
        /\ FlagConflict => (pc = "panic" /\ param.cut_sites = None)
        /\ pc = "ready" =>
              \A c \in DOMAIN Catalog :
                  \A i \in FlagRows(c) : Catalog[c].circular = Some(FlagValue(cut_file[i]))

\* Two contigs with different flags read into one catalog
C18_Witness ==
    /\ pc = "ready"
    /\ DOMAIN Catalog = {"chrA", "chrB"}
    /\ Catalog["chrA"].circular = Some(TRUE)
    /\ Catalog["chrB"].circular = Some(FALSE)
    /\ Len(Catalog["chrA"].cut_sites) = 2

\* A file whose second row of chrA carries another flag than the first: no
\* catalog
C18_WitnessAbort ==
    /\ pc = "panic"
    /\ FlagConflict
    /\ param.cut_sites = None

\* C19 as stated: a row of exactly four fields adds its site to the catalog
\* and leaves the circular flag of its contig unset when no row sets it.
C19_FourFieldRowAdded ==
    pc = "ready" =>
        \A i \in 1..Len(cut_file) :
            cut_file[i].nf = 4 =>
                /\ cut_file[i].contig \in DOMAIN Catalog
                /\ \E k \in 1..Len(Catalog[cut_file[i].contig].cut_sites) :
                      Catalog[cut_file[i].contig].cut_sites[k] =
                          Site(cut_file[i].name, cut_file[i].pos, cut_file[i].barcode)
                /\ FlagRows(cut_file[i].contig) = {} =>
                      Catalog[cut_file[i].contig].circular = None

----------------------------------------------------------------------------
(* Specification of the classifier on small groups: one run of main over   *)
(* one group of one or two segments                                        *)

\* Two query spans that do not overlap
ClassifySpans == { <<0, 1>>, <<2, 3>> }

\* Anchor selection: segments on two contigs, both strands, every mapping
\* quality around the thresholds, query lengths around target length + 150
AnchorRecords ==
    { PafRecord(sp, st, nm, 1, 6, mb, mq) :
        sp \in ClassifySpans, st \in Strands, nm \in ContigNames, mb \in {1, 2},
        mq \in {0, 5, 10} }
AnchorReads == PafReads(AnchorRecords, {3, LongQuery - 1, LongQuery, LongQuery + 1})
AnchorParams == Params({LinearFile}, FALSE, {"Start"}, {0, 10}, {1}, {200}, {0})

\* Boundary inference: segments on chrA around its sites, margins up to one
\* beyond the target end
BoundaryRecords ==
    { PafRecord(sp, st, "chrA", ts, 6, 1, 10) :
        sp \in ClassifySpans, st \in Strands, ts \in {1, 3, 4} }
BoundaryReads == PafReads(BoundaryRecords, {3})
BoundaryParams == Params({LinearFile, CircularFile}, FALSE, {"Start", "Either"}, {10}, {0, 1}, {200}, {0, 1, 7})

InitClassify ==
    /\ \/ param \in AnchorParams /\ \E rd \in AnchorReads : paf = <<rd>>
       \/ param \in BoundaryParams /\ \E rd \in BoundaryReads : paf = <<rd>>
    /\ overflow_checks \in BOOLEAN
    /\ cut_file = <<>>
    /\ paf_file = NoFile
    /\ groups = <<>>
    /\ query = None
    /\ found = None
    /\ read = NoRead
    /\ lookup = None
    /\ map_result = None
    /\ output = <<>>
    /\ read_hash = None
    /\ fq_file = None
    /\ ofiles = None
    /\ pc = "main"

SpecClassify == InitClassify /\ [][Next]_vars

----------------------------------------------------------------------------
(* Properties of the classifier on small groups (checked under SpecClassify) *)

\* The segments with mapq >= threshold whose query is not too long for the
\* target: slack is the greatest excess of the query length that is kept
Candidates(slack) ==
    { i \in 1..Len(read.records) :
        /\ read.records[i].mapq >= Threshold
        /\ read.qlen - read.records[i].target_length <= slack }
IsGreatest(i, slack) ==
    /\ i \in Candidates(slack)
    /\ \A j \in Candidates(slack) :
          read.records[j].matching_bases <= read.records[i].matching_bases
\* The classifier ran with the anchor on this contig and strand
AnchoredOn(i) ==
    /\ Collected
    /\ \A k \in 1..Len(lookup.val.recs) :
          /\ lookup.val.recs[k].target_name = read.records[i].target_name
          /\ lookup.val.recs[k].strand = read.records[i].strand
\* The classifier stopped because nothing was collected for an anchor of
\* mapping quality 0
NothingCollectedFor(i) ==
    /\ lookup # None
    /\ lookup.val.fm = Panic
    /\ lookup.val.recs = <<>>
    /\ read.records[i].mapq = 0
\* The anchor the property determines: with a candidate, the classifier ran on
\* the contig and strand of a candidate of greatest matching-base count;
\* without one, the outcome is LowMapQ(query length)
AnchorSelection(slack) ==
    (Classified /\ ~HasUnmappedSegment /\ HasPassingSegment) =>
        IF Candidates(slack) = {}
        THEN map_result = MapQlen("LowMapQ", read.qlen) /\ ~Collected
        ELSE \E i \in 1..Len(read.records) :
                 IsGreatest(i, slack) /\ (AnchoredOn(i) \/ NothingCollectedFor(i))

\* C21 as stated: a segment is discarded only when the query length exceeds the
\* target length by more than 150 (an excess of exactly 150 is kept).
C21_SlackKept == AnchorSelection(Slack)

\* C21 amended: a segment is discarded when the query length exceeds the target
\* length by 150 or more (an excess of 149 is kept, one of exactly 150 is not).
C21_SlackDiscarded == AnchorSelection(Slack - 1)

\* A group whose query length is target length + 150: no anchor, LowMapQ
C21_Witness ==
    /\ Classified /\ ~HasUnmappedSegment /\ HasPassingSegment
    /\ read.qlen = read.records[1].target_length + Slack
    /\ lookup # None /\ ~Collected
    /\ map_result = MapQlen("LowMapQ", read.qlen)

\* A group whose query length is target length + 149: anchored and classified
C21_WitnessKept ==
    /\ Classified /\ Collected
    /\ read.qlen = read.records[1].target_length + Slack - 1
    /\ Len(read.records) = 2
    /\ read.records[1].matching_bases > read.records[2].matching_bases
    /\ read.records[1].target_name # read.records[2].target_name
    /\ read.records[2].mapq >= Threshold
    /\ AnchoredOn(1)
    /\ Tag \in OutcomeTags

\* The collected segments, the earliest by query start and the latest by query
\* end (they do not overlap once the lookups are made)
Recs == lookup.val.recs
FirstSeg == Recs[1]
LastSeg == Recs[CHOOSE i \in 1..Len(Recs) : \A j \in 1..Len(Recs) : Recs[j].qend <= Recs[i].qend]
Max(a, b) == IF a >= b THEN a ELSE b
\* The target boundaries of the group and the positions looked up for them
StartBoundary == IF FirstSeg.strand = "Plus" THEN FirstSeg.target_start ELSE FirstSeg.target_end
EndBoundary == IF LastSeg.strand = "Plus" THEN LastSeg.target_end ELSE LastSeg.target_start
StartPos ==
    IF FirstSeg.strand = "Plus" THEN FirstSeg.target_start + param.margin
    ELSE Max(FirstSeg.target_end - param.margin, 0)
EndPos ==
    IF LastSeg.strand = "Plus" THEN Max(LastSeg.target_end - param.margin, 0)
    ELSE LastSeg.target_start + param.margin
\* The lookups were made
LookedUp == Classified /\ Collected /\ ~OverlapPair
\* Distance between a position and the site of a lookup result on a contig of
\* length l: linear, or around the ring when the contig is circular
LookupDistance(m, pos, l) ==
    LET ctg == Catalog[m.val.contig]
        lin == Abs(pos - site_of(param.cut_sites.val, m).pos)
    IN  IF ctg.circular = Some(TRUE) THEN Min(lin, Abs(l - lin)) ELSE lin

\* C22: the start lookup yields a site only for a plus-strand anchor and the
\* end lookup only for a minus-strand anchor; a site either lookup yields lies
\* on the anchor's contig within the configured max distance of the looked-up
\* position, measured with the target contig length.
C22_DirectionalGating ==
    LookedUp =>
        /\ StartSite # None =>
              /\ FirstSeg.strand = "Plus"
              /\ StartSite.val.contig = FirstSeg.target_name
              /\ LookupDistance(StartSite, StartPos, FirstSeg.target_length) <= param.max_distance
        /\ EndSite # None =>
              /\ FirstSeg.strand = "Minus"
              /\ EndSite.val.contig = FirstSeg.target_name
              /\ LookupDistance(EndSite, EndPos, FirstSeg.target_length) <= param.max_distance

\* A minus-strand group whose two ends both lie at a site: only the end lookup
\* yields it
C22_Witness ==
    /\ LookedUp
    /\ FirstSeg.strand = "Minus"
    /\ \E i \in 1..Len(Catalog["chrA"].cut_sites) :
          /\ Catalog["chrA"].cut_sites[i].pos = StartPos
          /\ Catalog["chrA"].cut_sites[i].pos = EndPos
    /\ StartSite = None
    /\ EndSite # None
    /\ site_of(param.cut_sites.val, EndSite).pos = EndPos

\* A plus-strand group on a circular contig whose start position lies beyond
\* the end of the target: the site is found around the ring
C22_WitnessRing ==
    /\ LookedUp
    /\ FirstSeg.strand = "Plus"
    /\ StartPos > FirstSeg.target_length
    /\ StartSite # None
    /\ Abs(StartPos - site_of(param.cut_sites.val, StartSite).pos) > param.max_distance

\* C23: the start position is target_start + margin (plus) or
\* max(target_end - margin, 0) (minus) of the earliest collected segment, the end
\* position max(target_end - margin, 0) (plus) or target_start + margin (minus)
\* of the latest one; the row of the report shows the unadjusted boundaries.
C23_BoundaryWithMargin ==
    (Classified /\ AtTable) =>
        /\ map_result.inner.start = <<StartBoundary, StartPos>>
        /\ map_result.inner.end = <<EndBoundary, EndPos>>
        /\ fmt_common_loc(map_result.inner)[2] = StartBoundary
        /\ fmt_common_loc(map_result.inner)[3] = EndBoundary

\* A minus-strand group of two segments with a margin above the target end:
\* the start position saturates at 0, the report keeps the boundary
C23_Witness ==
    /\ Classified /\ AtTable
    /\ Len(Recs) = 2
    /\ FirstSeg.strand = "Minus"
    /\ param.margin > FirstSeg.target_end
    /\ map_result.inner.start = <<FirstSeg.target_end, 0>>
    /\ map_result.inner.end = <<LastSeg.target_start, LastSeg.target_start + param.margin>>
    /\ FirstSeg.target_start # LastSeg.target_start

\* C25: whenever an anchor is selected, for every threshold (threshold 0 with
\* an anchor of mapping quality 0 included), the collected segments contain the
\* anchor, so taking their first element does not fail.
C25_AnchorCollected ==
    (Classified /\ lookup # None /\ find_anchor(read, Threshold) # None) =>
        /\ \E k \in 1..Len(Recs) : Recs[k] = Anchor
        /\ ~(Recs = <<>> /\ lookup.val.fm = Panic)

\* The site and distance the wraparound comparison selects for a query past the
\* last site (the last site at x, the first at first + l - pos) or before the
\* first site (the last at pos + l - last, the first at y), cut at max_dist
WrapChoice(ix, d) ==
    IF d <= query.val.max_dist THEN Some([contig |-> QContig, ix |-> ix]) ELSE None
WrapExpected ==
    LET n == Len(QSites)
        first == QSites[1].pos
        last == QSites[n].pos
        l == query.val.l
    IN  IF QPos > last
        THEN IF QPos - last < first + l - QPos THEN WrapChoice(n - 1, QPos - last)
             ELSE WrapChoice(0, first + l - QPos)
        ELSE IF QPos + l - last < first - QPos THEN WrapChoice(n - 1, QPos + l - last)
             ELSE WrapChoice(0, first - QPos)

\* C26: on a circular contig, for a query position 0 <= pos <= l past the last
\* site or before the first site (all sites on the contig), the wraparound
\* distance is computed without unsigned underflow and is first + l - pos,
\* respectively pos + l - last.
C26_WraparoundArithmetic ==
    (/\ Called /\ KnownContig
     /\ QCtg.circular = Some(TRUE)
     /\ Len(QSites) > 0
     /\ QPos <= query.val.l
     /\ \A i \in 1..Len(QSites) : QSites[i].pos <= query.val.l
     /\ \/ QPos > QSites[Len(QSites)].pos
        \/ QPos < QSites[1].pos) =>
        /\ found # Panic
        /\ found = WrapExpected

----------------------------------------------------------------------------
(* Specification of a whole run: the loop of main over the groups the      *)
(* reader yields from a small alignment input, then the FASTQ stage        *)

MaxRecords == 2      \* records of a FASTQ input

PafLine(qn, sp, strand, name, ts, mapq) ==
    [nf |-> 12, qname |-> qn, qlen |-> 3, qstart |-> sp[1], qend |-> sp[2], strand |-> strand,
     target_name |-> name, target_length |-> TargetLen, target_start |-> ts, target_end |-> 6,
     matching_bases |-> 1, mapq |-> mapq]

\* Lines of one read of length 3: two spans that fit, on the plus strand of
\* chrA with mapping quality 0, below and at the threshold, on its minus strand
\* and on chrB at the threshold, and a line whose span ends beyond the read
UnusedLines ==
    { PafLine("read1", sp, "+", "chrA", 2, mq) : sp \in { <<0, 1>>, <<2, 3>> }, mq \in {0, 5, 10} } \cup
    { PafLine("read1", sp, tg[2], tg[1], 2, 10) :
        sp \in { <<0, 1>>, <<2, 3>> }, tg \in { <<"chrA", "-">>, <<"chrB", "+">> } } \cup
    { PafLine("read1", <<2, 5>>, "+", "chrA", 2, 10) }

\* Lines of read1 that are classified Matched, ExcessUnmatched, LowMapQ and
\* Unmapped when alone in their group, and a Matched line of read2
DispatchLines ==
    { PafLine("read1", <<0, 3>>, "+", "chrA", 2, 10),
      PafLine("read1", <<0, 1>>, "+", "chrA", 2, 10),
      PafLine("read1", <<0, 3>>, "+", "chrA", 2, 5),
      PafLine("read1", <<0, 3>>, "+", "*", 0, 0),
      PafLine("read2", <<0, 3>>, "+", "chrA", 2, 10) }

FastqRecord(at, name, end_tag, comment, qual) ==
    [at |-> at, name |-> name, end_tag |-> end_tag, comment |-> comment, nlines |-> 4,
     seq |-> 2, plus |-> TRUE, qual |-> qual]

\* Records with the id lines "@read1/1 comment", "@read2/3" and "@read2"
FastqRecords ==
    { FastqRecord(TRUE, "read1", "1", TRUE, 2),
      FastqRecord(TRUE, "read2", "3", FALSE, 2),
      FastqRecord(TRUE, "read2", "", FALSE, 2) }

\* fq_file.read_len(): its code is not in fastq.rs; the length it returns is
\* left uninterpreted
read_len(rec) == "read_len"

DemultParams == Params({LinearFile}, FALSE, {"Start"}, {10}, {1}, {1}, {0})
FastqParams ==
    { [p EXCEPT !.fastq_file = Some(fq), !.matched_only = mo] :
        p \in DemultParams, fq \in SeqsUpTo(FastqRecords, MaxRecords), mo \in BOOLEAN }

InitDemult ==
    /\ \/ /\ param \in DemultParams
          /\ \E lines \in SeqsUpTo(UnusedLines, MaxLines) : paf_file = open(lines)
          /\ overflow_checks \in BOOLEAN
       \/ /\ param \in FastqParams
          /\ \E lines \in SeqsUpTo(DispatchLines, MaxLines) : paf_file = open(lines)
          /\ overflow_checks = FALSE
    /\ read_hash = new_read_hash(param)
    /\ cut_file = <<>>
    /\ paf = <<>>
    /\ groups = <<>>
    /\ query = None
    /\ found = None
    /\ read = NoRead
    /\ lookup = None
    /\ map_result = None
    /\ output = <<>>
    /\ fq_file = None
    /\ ofiles = None
    /\ pc = "loop"

\* One iteration of while let Some(read) = paf_file.next_read()?, or its end
MainLoop ==
    /\ pc = "loop"
    /\ LET r == next_read(paf_file) IN
         /\ paf_file' = r.file
         /\ IF r.result.kind = "Err"
            THEN /\ pc' = "error"
                 /\ UNCHANGED <<groups, read, lookup, map_result, output, read_hash, fq_file,
                                ofiles>>
            ELSE IF r.result.val = None
            THEN /\ IF param.fastq_file = None
                    THEN pc' = "done" /\ UNCHANGED <<fq_file, ofiles>>
                    ELSE /\ ofiles' = Some(open_output_files(param))
                         /\ fq_file' = Some(fastq_open(param.fastq_file.val))
                         /\ pc' = "fastq"
                 /\ UNCHANGED <<groups, read, lookup, map_result, output, read_hash>>
            ELSE LET rd == r.result.val.val IN
                 /\ read' = rd
                 /\ groups' = Append(groups, rd)
                 /\ \E c \in classify(rd, param, overflow_checks) :
                      /\ map_result' = c.result
                      /\ lookup' = c.run
                      /\ IF c.result = Panic
                         THEN output' = output /\ read_hash' = read_hash /\ pc' = "panic"
                         ELSE /\ output' = writeln(output, [qname |-> rd.qname, result |-> c.result])
                              /\ read_hash' = store(read_hash, rd.qname, c.result)
                              /\ pc' = "loop"
                 /\ UNCHANGED <<fq_file, ofiles>>
    /\ UNCHANGED <<cut_file, param, overflow_checks, query, found, paf>>

\* One iteration of while fq_file.next_read()?, or its end
FastqLoop ==
    /\ pc = "fastq"
    /\ LET r == fastq_next_read(fq_file.val) IN
         /\ fq_file' = Some(r.file)
         /\ IF r.result.kind = "Err" THEN pc' = "error" /\ UNCHANGED <<output, ofiles>>
            ELSE IF ~r.result.val THEN pc' = "done" /\ UNCHANGED <<output, ofiles>>
            ELSE   LET rec == r.file.buf.val
                       unmapped == MapQlen("Unmapped", read_len(rec))
                       id == read_id(rec)
                       rh == read_hash.val
                       mr == IF id \in DOMAIN rh THEN rh[id] ELSE unmapped
                       wrt == select_stream(ofiles.val, mr, param.cut_sites)
                   IN  /\ output' = IF id \in DOMAIN rh THEN output
                                    ELSE writeln(output, [qname |-> id, result |-> unmapped])
                       /\ ofiles' = IF wrt = None THEN ofiles
                                    ELSE Some(write_rec(ofiles.val, wrt.val, rec))
                       /\ pc' = "fastq"
    /\ UNCHANGED <<cut_file, param, overflow_checks, query, found, paf_file, paf, groups, read,
                   lookup, map_result, read_hash>>

NextDemult == MainLoop \/ FastqLoop

SpecDemult == InitDemult /\ [][NextDemult]_vars

----------------------------------------------------------------------------
(* Properties of a whole run (checked under SpecDemult)                    *)

\* The query bases covered by the segments of the group on the anchor's contig
\* and strand with a non-zero mapping quality
RECURSIVE SpanSum(_)
SpanSum(k) ==
    IF k = 0 THEN 0
    ELSE SpanSum(k - 1) +
         (IF /\ read.records[k].target_name = Anchor.target_name
             /\ read.records[k].strand = Anchor.strand
             /\ read.records[k].mapq # 0
          THEN read.records[k].qend - read.records[k].qstart ELSE 0)

\* C24: for a group that passes the overlap guard, unused is the query length
\* minus the bases covered by all segments on the anchor's contig and strand with
\* non-zero mapping quality, whether or not they pass the threshold; it is never
\* negative: the assertion used <= query length holds for the groups the reader
\* yields.
C24_UnusedBases ==
    LookedUp =>
        /\ lookup.val.fm # Panic
        /\ lookup.val.unused = read.qlen - SpanSum(Len(read.records))
        /\ lookup.val.unused >= 0
        /\ map_result.inner.unused = lookup.val.unused

\* A group of three segments on the anchor's contig and strand: the anchor, one
\* below the threshold that is counted, one of mapping quality 0 that is not
C24_Witness ==
    /\ LookedUp
    /\ Len(read.records) = 3
    /\ \A k \in 1..3 : /\ read.records[k].target_name = Anchor.target_name
                        /\ read.records[k].strand = Anchor.strand
    /\ \E k \in 1..3 : read.records[k].mapq = 0
    /\ \E k \in 1..3 : read.records[k].mapq > 0 /\ read.records[k].mapq < Threshold
    /\ Len(Recs) = 2
    /\ lookup.val.unused = 1

\* The FASTQ records the stage has taken from its input so far
Dispatched ==
    LET f == fq_file.val
    IN  SubSeq(f.recs, 1, f.next - 1 - (IF pc = "error" THEN 1 ELSE 0))
\* The groups of a read identifier and the tag and site name of its last one
GroupsOf(id) == { k \in 1..Len(groups) : groups[k].qname = id }
LastGroup(id) == CHOOSE k \in GroupsOf(id) : \A j \in GroupsOf(id) : j <= k
StoredTag(id) == IF GroupsOf(id) = {} THEN "Unmapped" ELSE output[LastGroup(id)].result.tag
StoredSiteName(id) == site_of(param.cut_sites.val, output[LastGroup(id)].result.site).name
\* The stream a FASTQ record belongs to (<<>>: none)
ExpectedStream(rec) ==
    LET id == read_id(rec) IN
    CASE StoredTag(id) = "Matched" -> <<"site_hash", StoredSiteName(id)>>
      [] StoredTag(id) # "Matched" /\ param.matched_only -> <<>>
      [] StoredTag(id) = "Unmapped" /\ ~param.matched_only -> <<"unmapped">>
      [] StoredTag(id) = "LowMapQ" /\ ~param.matched_only -> <<"low_mapq">>
      [] OTHER -> <<"unmatched">>
Streams ==
    { <<"unmapped">>, <<"low_mapq">>, <<"unmatched">> } \cup
    { <<"site_hash", n>> : n \in DOMAIN ofiles.val.site_hash }
Content(path) ==
    IF path[1] = "site_hash" THEN ofiles.val.site_hash[path[2]]
    ELSE IF ofiles.val[path[1]] = None THEN <<>> ELSE ofiles.val[path[1]].val
InFastqStage == fq_file # None /\ ofiles # None

\* C27: in the FASTQ stage every stream holds, in input order, exactly the
\* records taken so far that belong to it: the stream of its site for a record
\* whose identifier is stored as Matched, the unmapped stream for Unmapped and
\* for identifiers not in the alignment input, the low-mapq stream for LowMapQ,
\* the unmatched stream for every other outcome, the classification being that
\* of the last group of the identifier; with matched_only only the site streams
\* receive records.  No record is in two streams.
C27_FastqDispatch ==
    InFastqStage =>
        /\ \A path \in Streams :
              Content(path) = SelectSeq(Dispatched, LAMBDA rec : ExpectedStream(rec) = path)
        /\ \A k \in 1..Len(Dispatched) : ExpectedStream(Dispatched[k]) \in Streams \cup {<<>>}
        /\ param.matched_only =>
              \A path \in { <<"unmapped">>, <<"low_mapq">>, <<"unmatched">> } : Content(path) = <<>>

\* read1 is Matched in its first group and LowMapQ in its last one, with a
\* group of read2 between them: its FASTQ record is in the low-mapq stream
C27_Witness ==
    /\ InFastqStage
    /\ pc = "done"
    /\ Len(groups) = 3
    /\ groups[1].qname = "read1" /\ groups[2].qname = "read2" /\ groups[3].qname = "read1"
    /\ output[1].result.tag = "Matched"
    /\ output[3].result.tag = "LowMapQ"
    /\ Len(Content(<<"low_mapq">>)) = 1
    /\ read_id(Content(<<"low_mapq">>)[1]) = "read1"
    /\ Content(<<"site_hash", "siteA">>) = <<>>

\* With matched_only a Matched record is written to the stream of its site and
\* a record of an identifier stored as ExcessUnmatched is not written
C27_WitnessMatchedOnly ==
    /\ InFastqStage
    /\ pc = "done"
    /\ param.matched_only
    /\ Len(Dispatched) = 2
    /\ StoredTag(read_id(Dispatched[1])) = "ExcessUnmatched"
    /\ StoredTag(read_id(Dispatched[2])) = "Matched"
    /\ Content(<<"site_hash", "siteA">>) = <<Dispatched[2]>>
    /\ Content(<<"site_hash", "siteB">>) = <<>>

\* A record whose identifier is not in the alignment input goes to the unmapped
\* stream and adds a row to the report
C27_WitnessAbsent ==
    /\ InFastqStage
    /\ Len(Dispatched) = 1
    /\ read_id(Dispatched[1]) = "read2/3"
    /\ Len(groups) = 1
    /\ Content(<<"unmapped">>) = Dispatched
    /\ Len(output) = 2
    /\ output[2].qname = "read2/3" /\ output[2].result.tag = "Unmapped"

====
